---- MODULE Spec2Model ----
(***************************************************************************)
(* CodexAppServerTransport: the JSON-RPC bridge between the host and the   *)
(* `codex app-server` child process.  The model follows the class          *)
(* member by member: the handshake, the RPC correlation table, the         *)
(* approval tickets, the thread bookkeeping and the process events.        *)
(*                                                                         *)
(* JSON values are modelled as follows.  A string field that is absent is  *)
(* the empty string (both are falsy in the `||` / `!x` tests of the code). *)
(* A JSON-RPC id is an integer; NoId stands for `undefined` (the field is  *)
(* absent) and NullId for JSON `null`.                                     *)
(***************************************************************************)
EXTENDS Integers, Sequences, FiniteSets, TLC

\* ------------------------------------------------------------------ bounds
MaxLines == 2
MaxOps == 2
MaxThreadLines == 4
MaxThreadOps == 1
MaxCallLines == 1
MaxCallOps == 2
MaxListenerLines == 2
MaxListenerOps == 1
MaxExecLines == 3
MaxResolveLines == 1
MaxInboundLines == 2
MaxRpcLines == 3
MaxRpcOps == 2
MaxApprovalLines == 2
MaxApprovalOps == 1
MaxTicketLines == 1
MaxTicketOps == 2
MaxShutdownLines == 1
MaxShutdownOps == 1
MaxShutdownCalls == 2
MaxOrderLines == 5
MaxOrderOps == 1
MaxChunkLines == 2
MaxDecisionLines == 2
MaxDecisionOps == 2
MaxResponderLines == 1
MaxResponderSends == 3
MaxResponderOps == 1
MaxContextLines == 3
MaxContextOps == 2
MaxTurnLines == 3
MaxTurnOps == 1
MaxBufferLines == 4

\* -------------------------------------------------------------- JSON values
NoId == -2
NullId == -1

Threads == {"t1"}
Turns == {"u1"}
Sessions == {"s1"}
Decisions == {"approve_once", "deny_once"}
\* the four names of ApprovalDecision, and two names outside the type
DecisionNames ==
    {"approve_once", "approve_always", "deny_once", "deny_always", "approve", "disapprove"}
ApprovalMethod == "item/commandExecution/requestApproval"
OtherRequestMethod == "item/tool/call"
RequestIds == {0, 7}

\* String(n) of a non-negative integer, digit by digit.
Digit(d) ==
    CASE d = 0 -> "0" [] d = 1 -> "1" [] d = 2 -> "2" [] d = 3 -> "3"
      [] d = 4 -> "4" [] d = 5 -> "5" [] d = 6 -> "6" [] d = 7 -> "7"
      [] d = 8 -> "8" [] d = 9 -> "9"

RECURSIVE String(_)
String(n) ==
    IF n < 10 THEN Digit(n) ELSE String(n \div 10) \o Digit(n % 10)

\* `a || b` on string fields: the first truthy (non-empty) operand.
Or(a, b) == IF a # "" THEN a ELSE b

\* params.msg of a codex/event/* notification, with every field the bridge reads.
NoMsg ==
    [threadId |-> "", thread_id |-> "", thread |-> "", conversationId |-> "",
     itemThreadId |-> "", itemThread_id |-> "",
     turnId |-> "", turn_id |-> "", turn |-> "", itemTurnId |-> "", itemTurn_id |-> "",
     call_id |-> "", callId |-> "", chunk |-> "", delta |-> "", content |-> "",
     text |-> ""]

\* The params object of an inbound message, with every field the bridge reads.
\* item is params.item.type ("" when params has no item), itemObjectId is
\* params.item.id.
NoParams ==
    [threadId |-> "", thread_id |-> "", thread |-> "", conversationId |-> "",
     itemThreadId |-> "", itemThread_id |-> "",
     turnId |-> "", turn_id |-> "", turn |-> "", itemTurnId |-> "", itemTurn_id |-> "",
     approvalId |-> "", approval_id |-> "", requestId |-> "", request_id |-> "", id |-> "",
     item |-> "", itemObjectId |-> "", itemId |-> "", delta |-> "",
     msg |-> NoMsg]

\* An inbound line parsed to an object: method ("" when absent), id, an
\* error member (responses), result.thread.id / result.turn.id (responses), params.
Line(method, id, isError, thread, turn, params) ==
    [method |-> method, id |-> id, isError |-> isError,
     resultThread |-> thread, resultTurn |-> turn, params |-> params]

\* ------------------------------------------------------------------- state
VARIABLES
    nextId,                       \* nextId
    initRequestId,                \* initRequestId (NullId for null)
    readyState,                   \* the `ready` promise: pending / resolved / rejected
    pendingRequests,              \* id -> [method, op]: the op awaiting the promise
    pendingApprovals,             \* approval id -> request id captured by `respond`
    pendingNotificationApprovals, \* approval ids of notification-backed tickets
    threadContexts,               \* thread id -> session id
    turnToThread,                 \* turn id -> thread id
    pendingThreadNotifications,   \* deferred thread/started
    seenThreads,                  \* seenThreads
    out,                          \* lines written to the peer's stdin, in order
    events,                       \* events handed to emitEvent, in order
    ops,                          \* invocations of the public async methods
    procState,                    \* child process: running / errored / exited
    writable,                     \* proc.stdin.writable
    lineThrew,                    \* some handleLine call ended in an exception
    nLines,                       \* inbound lines handled so far
    commandExecutions,            \* call id -> [threadId, turnId] captured at begin
    listeners,                    \* registered handlers, in insertion order
    deliveries,                   \* deliveries[i]: the handlers that received events[i]
    agentMessageBuffers,          \* item id -> the message text received so far
    killed,                       \* proc.killed: a kill signal was delivered
    store,                        \* the Store: timeline, approvals, turns, sequences
    forwarded,                    \* events AgentManager handed to its own listeners
    sessions,                     \* the Store's sessions: session id -> codexThreadId
    mgrOps                        \* invocations of AgentManager's async methods

vars ==
    <<nextId, initRequestId, readyState, pendingRequests, pendingApprovals,
      pendingNotificationApprovals, threadContexts, turnToThread,
      pendingThreadNotifications, seenThreads, out, events, ops, procState,
      writable, lineThrew, nLines, commandExecutions, listeners, deliveries,
      agentMessageBuffers, killed, store, forwarded, sessions, mgrOps>>

\* ------------------------------------------------------- outbound messages
OutMsg(kind, method, id, arg, decision) ==
    [kind |-> kind, method |-> method, id |-> id, arg |-> arg, decision |-> decision]

CallMsg(method, id, arg, decision) == OutMsg("call", method, id, arg, decision)
NotifyMsg(method) == OutMsg("notify", method, NoId, "", "")
ResultMsg(id, decision) == OutMsg("result", "", id, "", decision)

\* an error response that does not name the request it answers
ErrorMsgNoId(id) == OutMsg("error", "", NullId, "", "")

\* {id, error: {code: -32000, message: "Unhandled request: ..."}}
ErrorMsg(id) == OutMsg("error", "", id, "", "")

\* ------------------------------------------------------------------ events
\* itemId / kind / delta are the payload of the item events ("" elsewhere).
Event(type, sessionId, turnId, threadId, approvalId, responder, recoverable) ==
    [type |-> type, sessionId |-> sessionId, turnId |-> turnId, threadId |-> threadId,
     approvalId |-> approvalId, responder |-> responder, recoverable |-> recoverable,
     itemId |-> "", kind |-> "", delta |-> ""]

\* item.started / item.delta / item.completed
ItemEvent(type, sessionId, turnId, threadId, itemId, kind, delta) ==
    [Event(type, sessionId, turnId, threadId, "", FALSE, FALSE)
        EXCEPT !.itemId = itemId, !.kind = kind, !.delta = delta]

\* --------------------------------------------------------------- listeners
\* The handler functions a caller may register; the Throwing ones raise an
\* exception on every event they are handed.
Handlers == {"h1", "h2", "hx"}
Throwing == {"hx"}

\* listeners.forEach(listener => listener(event)): the handlers reached, in
\* insertion order, up to and including the first one that throws.
Reached(ls) ==
    {ls[k] : k \in {j \in DOMAIN ls : \A i \in 1..(j - 1) : ls[i] \notin Throwing}}

\* the forEach of emitEvent ends in an exception
ListenerThrows == \E k \in DOMAIN listeners : listeners[k] \in Throwing

\* ----------------------------------------------------------- pure helpers
\* s.startsWith(p)
StartsWith(s, p) == Len(s) >= Len(p) /\ SubSeq(s, 1, Len(p)) = p

\* s.includes(sub)
Includes(s, sub) ==
    \E i \in 1..(Len(s) - Len(sub) + 1) : SubSeq(s, i, i + Len(sub) - 1) = sub

\* a mapping that looks for "approve" anywhere in the name
mapDecisionIncludes(decision) == IF Includes(decision, "approve") THEN "accept" ELSE "decline"

mapDecision(decision) == IF StartsWith(decision, "approve") THEN "accept" ELSE "decline"

resolveThreadId(params) ==
    Or(params.threadId, Or(params.thread_id, Or(params.thread,
       Or(params.conversationId, Or(params.itemThreadId, params.itemThread_id)))))

resolveTurnId(params) ==
    Or(params.turnId, Or(params.turn_id, Or(params.turn,
       Or(params.itemTurnId, params.itemTurn_id))))

extractApprovalId(params) ==
    Or(params.approvalId, Or(params.approval_id, Or(params.requestId,
       Or(params.request_id, params.id))))

\* a resolution that prefers the raw thread id to the turn-to-thread index
resolveSessionIdRawFirst(ctxs, t2t, threadId, turnId) ==
    IF threadId # "" /\ threadId \in DOMAIN ctxs
    THEN ctxs[threadId].sessionId
    ELSE IF threadId # "" THEN threadId
    ELSE IF turnId # "" /\ turnId \in DOMAIN t2t
         THEN IF t2t[turnId] \in DOMAIN ctxs
              THEN ctxs[t2t[turnId]].sessionId
              ELSE t2t[turnId]
         ELSE Or(turnId, "unknown")

resolveSessionId(ctxs, t2t, threadId, turnId) ==
    IF threadId # "" /\ threadId \in DOMAIN ctxs
    THEN ctxs[threadId].sessionId
    ELSE IF turnId # "" /\ turnId \in DOMAIN t2t
         THEN IF t2t[turnId] \in DOMAIN ctxs
              THEN ctxs[t2t[turnId]].sessionId
              ELSE t2t[turnId]
         ELSE Or(threadId, Or(turnId, "unknown"))

\* The base64 alphabet, and the characters of the bytes 32..126 (the double
\* quote, the backslash, the backquote and every byte outside 32..126 read
\* as "?").
Base64Alphabet == "ABCDEFGHIJKLMNOPQRSTUVWXYZabcdefghijklmnopqrstuvwxyz0123456789+/"
Text == " !?#$%&'()*+,-./0123456789:;<=>?@ABCDEFGHIJKLMNOPQRSTUVWXYZ[?]^_?abcdefghijklmnopqrstuvwxyz{|}~"

CharAt(s, i) == SubSeq(s, i, i)
Sextet(c) == (CHOOSE i \in 1..Len(Base64Alphabet) : CharAt(Base64Alphabet, i) = c) - 1
ByteChar(b) == IF b >= 32 /\ b <= 126 THEN CharAt(Text, b - 31) ELSE "?"

\* the number of trailing "=" of a chunk
Padding(chunk) ==
    IF Len(chunk) >= 2 /\ SubSeq(chunk, Len(chunk) - 1, Len(chunk)) = "==" THEN 2
    ELSE IF Len(chunk) >= 1 /\ CharAt(chunk, Len(chunk)) = "=" THEN 1
    ELSE 0

\* /^[A-Za-z0-9+/]+={0,2}$/.test(chunk)
base64Pattern(chunk) ==
    /\ Len(chunk) - Padding(chunk) >= 1
    /\ \A i \in 1..(Len(chunk) - Padding(chunk)) :
           \E j \in 1..Len(Base64Alphabet) : CharAt(Base64Alphabet, j) = CharAt(chunk, i)

\* Buffer.from(chunk, "base64").toString("utf8") of a chunk that matched the
\* pattern and whose length is a multiple of 4: three bytes per group of four
\* characters, fewer in a padded last group.
RECURSIVE Base64Decode(_)
Base64Decode(chunk) ==
    IF Len(chunk) < 4 THEN ""
    ELSE LET pad == IF Len(chunk) = 4 THEN Padding(chunk) ELSE 0
             v(i) == IF i > 4 - pad THEN 0 ELSE Sextet(CharAt(chunk, i))
             n == v(1) * 262144 + v(2) * 4096 + v(3) * 64 + v(4)
             b1 == ByteChar(n \div 65536)
             b2 == IF pad >= 2 THEN "" ELSE ByteChar((n \div 256) % 256)
             b3 == IF pad >= 1 THEN "" ELSE ByteChar(n % 256)
         IN  b1 \o b2 \o b3 \o Base64Decode(SubSeq(chunk, 5, Len(chunk)))

\* a decoder that does not look at the length of the chunk
decodeChunkAnyLength(chunk) ==
    IF chunk = "" THEN ""
    ELSE IF base64Pattern(chunk) THEN Base64Decode(chunk)
    ELSE chunk

decodeChunk(chunk) ==
    IF chunk = "" THEN ""
    ELSE IF Len(chunk) % 4 = 0 /\ base64Pattern(chunk) THEN Base64Decode(chunk)
    ELSE chunk

\* Map.set
MapSet(m, k, v) == [x \in DOMAIN m \cup {k} |-> IF x = k THEN v ELSE m[x]]

\* a delete that empties the map
MapDeleteAll(m, k) == <<>>

\* Map.delete
MapDelete(m, k) == [x \in DOMAIN m \ {k} |-> m[x]]

\* settling a promise that may already be settled
Settle(state, to) == IF state = "pending" THEN to ELSE state

\* --------------------------------------------------------------- the Store
\* The two implementations of the Store interface: MemoryStore keeps maps,
\* SqliteStore keeps tables (approvals.id and turns.id are PRIMARY KEYs).
StoreKinds == {"memory", "sqlite"}

EmptyStore(kind) ==
    [kind |-> kind, timeline |-> <<>>, approvals |-> <<>>, turns |-> {},
     sequences |-> <<>>]

\* listTimelineItems(sessionId)
listTimelineItems(st, sessionId) ==
    IF sessionId \in DOMAIN st.timeline THEN st.timeline[sessionId] ELSE <<>>

\* the largest of a set of sequence numbers, 0 for none: COALESCE(MAX(..), 0)
MaxOf(S) == IF S = {} THEN 0 ELSE CHOOSE n \in S : \A k \in S : k <= n

\* MemoryStore: (this.sequences.get(sessionId) ?? 0) + 1
\* SqliteStore.nextSequence: SELECT COALESCE(MAX(sequence), 0) + 1
nextSequence(st, sessionId) ==
    IF st.kind = "memory"
    THEN (IF sessionId \in DOMAIN st.sequences THEN st.sequences[sessionId] ELSE 0) + 1
    ELSE LET items == listTimelineItems(st, sessionId)
         IN  MaxOf({items[k].sequence : k \in DOMAIN items}) + 1

\* addTimelineItem({sessionId, turnId, type, payload})
addTimelineItem(st, sessionId, turnId, type, payload) ==
    LET sequence == nextSequence(st, sessionId)
        item == [sequence |-> sequence, sessionId |-> sessionId, turnId |-> turnId,
                 type |-> type, payload |-> payload]
    IN  [st EXCEPT !.timeline =
                       MapSet(@, sessionId, Append(listTimelineItems(st, sessionId), item)),
                   !.sequences =
                       IF st.kind = "memory" THEN MapSet(@, sessionId, sequence) ELSE @]

\* createApproval(request) fails in SqliteStore when a row has the id
createApprovalThrows(st, id) == st.kind = "sqlite" /\ id \in DOMAIN st.approvals

\* createApproval(request): Map.set in MemoryStore, INSERT in SqliteStore
createApproval(st, id, sessionId, turnId) ==
    [st EXCEPT !.approvals =
        MapSet(@, id, [status |-> "pending", resolvedAt |-> 0, sessionId |-> sessionId,
                       turnId |-> turnId])]

\* updateApprovalStatus(id, status, resolvedAt)
updateApprovalStatus(st, id, status, resolvedAt) ==
    IF id \in DOMAIN st.approvals
    THEN [st EXCEPT !.approvals[id].status = status,
                    !.approvals[id].resolvedAt = resolvedAt]
    ELSE st

\* createTurn(sessionId, userMessage, turnId) fails in SqliteStore when a row
\* has the turn id
createTurnThrows(st, turnId) == st.kind = "sqlite" /\ turnId \in st.turns

createTurn(st, turnId) == [st EXCEPT !.turns = @ \cup {turnId}]

\* ------------------------------------------------------------ AgentManager
\* the handler AgentManager registers with the transport in its constructor
Manager == "mgr"

\* the payload of the timeline item sendMessage adds: {role: "user", text}
UserMessage == Event("message", "", "", "", "", FALSE, FALSE)

mapEventToTimelineType(event) ==
    IF StartsWith(event.type, "assistant") THEN "message"
    ELSE IF StartsWith(event.type, "plan") THEN "plan"
    ELSE IF StartsWith(event.type, "tool") THEN "tool_call"
    ELSE IF StartsWith(event.type, "command") THEN "command_output"
    ELSE IF StartsWith(event.type, "file") THEN "file_change"
    ELSE IF event.type = "item.delta"
    THEN (IF event.kind = "commandOutput" THEN "command_output"
          ELSE IF event.kind = "agentMessage" THEN "message"
          ELSE "summary")
    ELSE IF event.type \in {"item.started", "item.completed"}
    THEN (IF event.kind = "commandExecution" THEN "command_output"
          ELSE IF event.kind = "fileChange" THEN "file_change"
          ELSE IF event.kind = "agentMessage" THEN "message"
          ELSE IF event.kind = "reasoning" THEN "summary"
          ELSE "tool_call")
    ELSE IF StartsWith(event.type, "thread") \/ StartsWith(event.type, "turn")
    THEN "tool_call"
    ELSE IF event.type = "approval.request" THEN "approval_request"
    ELSE IF event.type = "session.summary" THEN "summary"
    ELSE "error"

\* handleTransportEvent(event) on r = [store, forwarded, threw]: the timeline
\* item, the approval of an approval.request, then the manager's listeners.
\* An exception of createApproval leaves the handler before the listeners.
handleTransportEvent(r, event) ==
    LET st1 == addTimelineItem(r.store, event.sessionId, event.turnId,
                               mapEventToTimelineType(event), event)
    IN  IF event.type = "approval.request"
        THEN IF createApprovalThrows(st1, event.approvalId)
             THEN [store |-> st1, forwarded |-> r.forwarded, threw |-> TRUE]
             ELSE [store |-> createApproval(st1, event.approvalId, event.sessionId,
                                            event.turnId),
                   forwarded |-> Append(r.forwarded, event), threw |-> r.threw]
        ELSE [store |-> st1, forwarded |-> Append(r.forwarded, event), threw |-> r.threw]

\* the handler applied to the events of one step, in their order
RECURSIVE handleTransportEvents(_, _)
handleTransportEvents(r, evs) ==
    IF evs = <<>> THEN r
    ELSE handleTransportEvents(handleTransportEvent(r, evs[1]), SubSeq(evs, 2, Len(evs)))

\* what the manager's handler makes of the events the step appended
Handled ==
    IF Manager \in Reached(listeners)
    THEN handleTransportEvents([store |-> store, forwarded |-> forwarded, threw |-> FALSE],
                               SubSeq(events', Len(events) + 1, Len(events')))
    ELSE [store |-> store, forwarded |-> forwarded, threw |-> FALSE]

\* emitEvent, for the event the step appended to `events` (if any)
emitEvent ==
    /\ deliveries' =
           deliveries \o [i \in 1..(Len(events') - Len(events)) |-> Reached(listeners)]
    /\ store' = Handled.store
    /\ forwarded' = Handled.forwarded

\* emitThreadStarted without the seenThreads test
emitThreadStartedNoDedup(seen, evs, ctxs, t2t, threadId) ==
    [seen |-> seen \cup {threadId},
     events |-> Append(evs, Event("thread.started",
                   resolveSessionId(ctxs, t2t, threadId, ""), "", threadId,
                   "", FALSE, FALSE))]

\* emitThreadStarted on the pair (seenThreads, events)
emitThreadStarted(seen, evs, ctxs, t2t, threadId) ==
    IF threadId \in seen
    THEN [seen |-> seen, events |-> evs]
    ELSE [seen |-> seen \cup {threadId},
          events |-> Append(evs, Event("thread.started",
                        resolveSessionId(ctxs, t2t, threadId, ""), "", threadId,
                        "", FALSE, FALSE))]

\* The first id handed out by nextId++.
FirstId == 1

\* constructor: spawn, handlers, the ready promise, startHandshake().
Init ==
    /\ nextId = FirstId + 1
    /\ initRequestId = FirstId
    /\ readyState = "pending"
    /\ pendingRequests = <<>>
    /\ pendingApprovals = <<>>
    /\ pendingNotificationApprovals = {}
    /\ threadContexts = <<>>
    /\ turnToThread = <<>>
    /\ pendingThreadNotifications = {}
    /\ seenThreads = {}
    /\ out = <<CallMsg("initialize", FirstId, "", "")>>
    /\ events = <<>>
    /\ ops = <<>>
    /\ procState = "running"
    /\ writable = TRUE
    /\ lineThrew = FALSE
    /\ nLines = 0
    /\ commandExecutions = <<>>
    /\ listeners = <<>>
    /\ deliveries = <<>>
    /\ agentMessageBuffers = <<>>
    /\ killed = FALSE
    /\ store = EmptyStore("memory")
    /\ forwarded = <<>>
    /\ sessions = [s \in Sessions |-> ""]
    /\ mgrOps = <<>>

\* ---------------------------------------------------- public invocations
\* One invocation of an async public method.  pc: awaitReady (suspended at
\* `await this.ready`), awaitRpc (suspended at `await this.rpc(...)`),
\* resolved / rejected (the returned promise is settled).  rpcState is the
\* state of the promise rpc() returned to it, with the result's
\* thread.id / turn.id once it resolved.
Op(kind, pc, arg, decision, session) ==
    [kind |-> kind, pc |-> pc, arg |-> arg, decision |-> decision, session |-> session,
     rpcState |-> "none", resThread |-> "", resTurn |-> "", value |-> ""]

\* pending.resolve(result) / pending.reject(error) seen from the awaiting op
SettleRpc(op, to, thread, turn) ==
    [op EXCEPT !.rpcState = to, !.resThread = thread, !.resTurn = turn]

\* ------------------------------------------------------------ line handlers
\* requestId ? ... : ...   (undefined, null and 0 are falsy)
Truthy(requestId) == requestId # NoId /\ requestId # NullId /\ requestId # 0

emitApprovalRequest(method, params, requestId) ==
    LET threadId == resolveThreadId(params)
        turnId == Or(resolveTurnId(params), "unknown")
        sessionId == resolveSessionId(threadContexts, turnToThread, threadId, turnId)
        extracted == extractApprovalId(params)
        generated == ~Truthy(requestId) /\ extracted = ""
        approvalId == IF Truthy(requestId) THEN String(requestId)
                      ELSE IF extracted # "" THEN extracted
                      ELSE "approval_T_" \o String(nextId)
    IN  /\ nextId' = IF generated THEN nextId + 1 ELSE nextId
        /\ IF Truthy(requestId)
           THEN /\ pendingApprovals' = MapSet(pendingApprovals, approvalId, requestId)
                /\ UNCHANGED pendingNotificationApprovals
           ELSE /\ pendingNotificationApprovals' =
                       pendingNotificationApprovals \cup {approvalId}
                /\ UNCHANGED pendingApprovals
        /\ events' = Append(events, Event("approval.request", sessionId, turnId,
                                          threadId, approvalId, Truthy(requestId), FALSE))
        /\ emitEvent
        /\ lineThrew' = (lineThrew \/ ListenerThrows \/ Handled.threw)
        /\ UNCHANGED <<initRequestId, readyState, pendingRequests, threadContexts,
                       turnToThread, pendingThreadNotifications, seenThreads, out, ops,
                       commandExecutions, listeners, agentMessageBuffers>>

handleServerRequest(msg) ==
    IF Includes(msg.method, "requestApproval")
    THEN emitApprovalRequest(msg.method, msg.params, msg.id)
    ELSE IF writable
         THEN /\ out' = Append(out, ErrorMsg(msg.id))
              /\ UNCHANGED <<nextId, initRequestId, readyState, pendingRequests,
                             pendingApprovals, pendingNotificationApprovals,
                             threadContexts, turnToThread, pendingThreadNotifications,
                             seenThreads, events, ops, lineThrew, commandExecutions,
                             listeners, deliveries, agentMessageBuffers, store, forwarded>>
         ELSE /\ lineThrew' = TRUE
              /\ UNCHANGED <<nextId, initRequestId, readyState, pendingRequests,
                             pendingApprovals, pendingNotificationApprovals,
                             threadContexts, turnToThread, pendingThreadNotifications,
                             seenThreads, out, events, ops, commandExecutions, listeners,
                             deliveries, agentMessageBuffers, store, forwarded>>

handleResponse(msg) ==
    /\ UNCHANGED <<nextId, pendingApprovals, pendingNotificationApprovals, threadContexts,
                   turnToThread, pendingThreadNotifications, seenThreads, events,
                   commandExecutions, listeners, deliveries, agentMessageBuffers, store,
                   forwarded>>
    /\ IF initRequestId = msg.id
       THEN IF msg.isError
            THEN /\ readyState' = Settle(readyState, "rejected")
                 /\ UNCHANGED <<initRequestId, out, lineThrew, pendingRequests, ops>>
            ELSE IF writable
                 THEN /\ out' = Append(out, NotifyMsg("initialized"))
                      /\ readyState' = Settle(readyState, "resolved")
                      /\ initRequestId' = NullId
                      /\ UNCHANGED <<lineThrew, pendingRequests, ops>>
                 ELSE /\ lineThrew' = TRUE
                      /\ UNCHANGED <<initRequestId, readyState, out, pendingRequests, ops>>
       ELSE IF msg.id \in DOMAIN pendingRequests
            THEN LET o == pendingRequests[msg.id].op
                 IN  /\ pendingRequests' = MapDelete(pendingRequests, msg.id)
                     /\ ops' = [ops EXCEPT ![o] =
                                  IF msg.isError
                                  THEN SettleRpc(@, "rejected", "", "")
                                  ELSE SettleRpc(@, "resolved", msg.resultThread,
                                                 msg.resultTurn)]
                     /\ UNCHANGED <<initRequestId, readyState, out, lineThrew>>
            ELSE UNCHANGED <<initRequestId, readyState, out, lineThrew, pendingRequests, ops>>

\* a lookup that never finds the context recorded at begin
contextForgotten(cmds, callId) == <<>>

\* commandExecutions.get(callId): <<the context>>, or <<>> for undefined
context(cmds, callId) == IF callId \in DOMAIN cmds THEN <<cmds[callId]>> ELSE <<>>

\* handleCodexEvent: the low-level event family.  `emitted` is the event the
\* notification produces (none when it is dropped), `cmds` the context table
\* it leaves behind.
handleCodexEvent(method, params) ==
    LET msg == params.msg
        threadId == Or(resolveThreadId(params), resolveThreadId(msg))
        turnId == Or(resolveTurnId(params), Or(resolveTurnId(msg), params.id))
        callId == Or(msg.call_id, msg.callId)
        ctx == context(commandExecutions, callId)
        resolvedThreadId == IF ctx # <<>> THEN ctx[1].threadId ELSE threadId
        resolvedTurnId == IF ctx # <<>> THEN ctx[1].turnId ELSE turnId
        delta == decodeChunk(msg.chunk)
        text == Or(msg.delta, Or(msg.content, msg.text))
        dropped == threadId = "" \/ turnId = ""
        cmds ==
            IF dropped THEN commandExecutions
            ELSE IF method = "codex/event/exec_command_begin"
            THEN MapSet(commandExecutions, callId, [threadId |-> threadId, turnId |-> turnId])
            ELSE IF method = "codex/event/exec_command_end"
            THEN MapDelete(commandExecutions, callId)
            ELSE commandExecutions
        emitted ==
            IF dropped THEN <<>>
            ELSE IF method = "codex/event/exec_command_begin"
            THEN <<ItemEvent("item.started",
                     resolveSessionId(threadContexts, turnToThread, threadId, turnId),
                     turnId, threadId, callId, "commandExecution", "")>>
            ELSE IF method = "codex/event/exec_command_output_delta"
            THEN IF delta = "" THEN <<>>
                 ELSE <<ItemEvent("item.delta",
                          resolveSessionId(threadContexts, turnToThread,
                                           resolvedThreadId, resolvedTurnId),
                          resolvedTurnId, resolvedThreadId, callId, "commandOutput", delta)>>
            ELSE IF method = "codex/event/exec_command_end"
            THEN <<ItemEvent("item.completed",
                     resolveSessionId(threadContexts, turnToThread,
                                      resolvedThreadId, resolvedTurnId),
                     resolvedTurnId, resolvedThreadId, callId, "commandExecution", "")>>
            ELSE IF method \in {"codex/event/agent_message_content_delta",
                                "codex/event/agent_message_delta"}
            THEN IF text = "" THEN <<>>
                 ELSE <<ItemEvent("item.delta",
                          resolveSessionId(threadContexts, turnToThread, threadId, turnId),
                          turnId, threadId, "", "agentMessage", text)>>
            ELSE <<>>
    IN  /\ commandExecutions' = cmds
        /\ events' = events \o emitted
        /\ emitEvent
        /\ lineThrew' = (lineThrew \/ (emitted # <<>> /\ ListenerThrows))
        /\ UNCHANGED <<nextId, initRequestId, readyState, pendingRequests,
                       pendingApprovals, pendingNotificationApprovals, threadContexts,
                       turnToThread, pendingThreadNotifications, seenThreads, out, ops,
                       listeners, agentMessageBuffers>>

\* a buffer that keeps the last delta only
appendDeltaReplace(buffers, itemId, delta) == MapSet(buffers, itemId, delta)

\* agentMessageBuffers.set(itemId, (agentMessageBuffers.get(itemId) ?? "") + delta)
appendDelta(buffers, itemId, delta) ==
    MapSet(buffers, itemId,
           (IF itemId \in DOMAIN buffers THEN buffers[itemId] ELSE "") \o delta)

\* a payload that carries the text buffered for the item so far
payloadDeltaBuffered(buffers, itemId, delta) ==
    (IF itemId \in DOMAIN buffers THEN buffers[itemId] ELSE "") \o delta

\* payload.delta of an item.delta event: the delta of the line at hand,
\* whatever the buffer of the item holds
payloadDelta(buffers, itemId, delta) == delta

\* the payload kind of the three text-delta notifications
DeltaKind ==
    [m \in {"item/agentMessage/delta", "item/commandExecution/outputDelta",
            "item/reasoning/summaryTextDelta"} |->
        CASE m = "item/agentMessage/delta" -> "agentMessage"
          [] m = "item/commandExecution/outputDelta" -> "commandOutput"
          [] OTHER -> "reasoningSummary"]

\* handleNotification.  MapDelete of a key that is absent leaves the map as it
\* is, as the `has` test of the code does.
handleNotification(method, params) ==
    IF StartsWith(method, "codex/event/")
    THEN handleCodexEvent(method, params)
    ELSE IF method = "thread/started"
    THEN LET threadId == params.thread
             r == emitThreadStarted(seenThreads, events, threadContexts, turnToThread,
                                    threadId)
         IN  /\ UNCHANGED <<nextId, initRequestId, readyState, pendingRequests,
                            pendingApprovals, pendingNotificationApprovals, threadContexts,
                            turnToThread, out, ops, commandExecutions, listeners,
                            agentMessageBuffers>>
             /\ IF threadId = ""
                THEN UNCHANGED <<pendingThreadNotifications, seenThreads, events,
                                 deliveries, lineThrew, store, forwarded>>
                ELSE IF threadId \notin DOMAIN threadContexts
                THEN /\ pendingThreadNotifications' =
                            pendingThreadNotifications \cup {threadId}
                     /\ UNCHANGED <<seenThreads, events, deliveries, lineThrew, store,
                                    forwarded>>
                ELSE /\ seenThreads' = r.seen
                     /\ events' = r.events
                     /\ emitEvent
                     /\ lineThrew' = (lineThrew \/ (r.events # events /\ ListenerThrows))
                     /\ UNCHANGED pendingThreadNotifications
    ELSE IF method = "turn/started"
    THEN LET threadId == params.threadId
             turnId == params.turn
         IN  /\ UNCHANGED <<nextId, initRequestId, readyState, pendingRequests,
                            pendingApprovals, pendingNotificationApprovals, threadContexts,
                            pendingThreadNotifications, seenThreads, out, ops,
                            commandExecutions, listeners, agentMessageBuffers>>
             /\ IF threadId = "" \/ turnId = ""
                THEN UNCHANGED <<events, turnToThread, deliveries, lineThrew, store,
                                 forwarded>>
                ELSE /\ turnToThread' = MapSet(turnToThread, turnId, threadId)
                     /\ events' = Append(events, Event("turn.started",
                            resolveSessionId(threadContexts, MapSet(turnToThread, turnId, threadId),
                                             threadId, ""),
                            turnId, threadId, "", FALSE, FALSE))
                     /\ emitEvent
                     /\ lineThrew' = (lineThrew \/ ListenerThrows)
    ELSE IF method \in {"turn/completed", "item/started", "item/completed"}
                           \cup DOMAIN DeltaKind
    THEN LET threadId == params.threadId
             turnId == IF method = "turn/completed" THEN params.turn ELSE params.turnId
             itemId == params.itemId
             dropped ==
                 \/ threadId = "" \/ turnId = ""
                 \/ method \in {"item/started", "item/completed"} /\ params.item = ""
                 \/ method \in DOMAIN DeltaKind /\ params.delta = ""
             sessionId == resolveSessionId(threadContexts, turnToThread, threadId, "")
             buffers ==
                 IF dropped THEN agentMessageBuffers
                 ELSE IF method = "item/completed" /\ params.item = "agentMessage"
                 THEN MapDelete(agentMessageBuffers, params.itemObjectId)
                 ELSE IF method = "item/agentMessage/delta" /\ itemId # ""
                 THEN appendDelta(agentMessageBuffers, itemId, params.delta)
                 ELSE agentMessageBuffers
             emitted ==
                 IF dropped THEN <<>>
                 ELSE IF method = "turn/completed"
                 THEN <<Event("turn.completed", sessionId, turnId, threadId, "", FALSE, FALSE)>>
                 ELSE IF method = "item/started"
                 THEN <<ItemEvent("item.started", sessionId, turnId, threadId,
                                  params.itemObjectId, params.item, "")>>
                 ELSE IF method = "item/completed"
                 THEN <<ItemEvent("item.completed", sessionId, turnId, threadId,
                                  params.itemObjectId, params.item, "")>>
                 ELSE <<ItemEvent("item.delta", sessionId, turnId, threadId, itemId,
                                  DeltaKind[method],
                                  payloadDelta(agentMessageBuffers, itemId, params.delta))>>
         IN  /\ agentMessageBuffers' = buffers
             /\ events' = events \o emitted
             /\ emitEvent
             /\ lineThrew' = (lineThrew \/ (emitted # <<>> /\ ListenerThrows))
             /\ UNCHANGED <<nextId, initRequestId, readyState, pendingRequests,
                            pendingApprovals, pendingNotificationApprovals, threadContexts,
                            turnToThread, pendingThreadNotifications, seenThreads, out, ops,
                            commandExecutions, listeners>>
    ELSE IF method \in {"item/commandExecution/requestApproval",
                        "item/fileChange/requestApproval"}
    THEN emitApprovalRequest(method, params, NoId)
    ELSE UNCHANGED <<nextId, initRequestId, readyState, pendingRequests, pendingApprovals,
                     pendingNotificationApprovals, threadContexts, turnToThread,
                     pendingThreadNotifications, seenThreads, out, events, ops, lineThrew,
                     commandExecutions, listeners, deliveries, agentMessageBuffers, store,
                     forwarded>>

\* rl.on("line"): one inbound line, already parsed to an object.
handleLine(msg) ==
    /\ nLines' = nLines + 1
    /\ UNCHANGED <<procState, writable, killed, sessions, mgrOps>>
    /\ IF msg.method # "" /\ msg.id # NoId
       THEN handleServerRequest(msg)
       ELSE IF msg.id # NoId
       THEN handleResponse(msg)
       ELSE IF msg.method # ""
       THEN handleNotification(msg.method, msg.params)
       ELSE UNCHANGED <<nextId, initRequestId, readyState, pendingRequests,
                        pendingApprovals, pendingNotificationApprovals, threadContexts,
                        turnToThread, pendingThreadNotifications, seenThreads, out, events,
                        ops, lineThrew, commandExecutions, listeners, deliveries,
                        agentMessageBuffers, store, forwarded>>

\* Lines that are no JSON object: text JSON.parse rejects, the JSON value
\* null, and any other JSON value (a number, a string, a boolean, an array).
NonObjectLines == {"unparsable", "null", "value"}

\* handleLine on such a line: the parse error is caught; `msg.method` of null
\* is a TypeError; on any other value both property reads give undefined.
handleNonObjectLine(kind) ==
    /\ kind \in NonObjectLines
    /\ nLines' = nLines + 1
    /\ lineThrew' = (lineThrew \/ kind = "null")
    /\ UNCHANGED <<nextId, initRequestId, readyState, pendingRequests, pendingApprovals,
                   pendingNotificationApprovals, threadContexts, turnToThread,
                   pendingThreadNotifications, seenThreads, out, events, ops, procState,
                   writable, commandExecutions, listeners, deliveries, agentMessageBuffers,
                   killed, store, forwarded, sessions, mgrOps>>

\* ------------------------------------------------------- public operations
\* an rpc that registers its promise in place of the table
rpcForget(method, arg, decision, o) ==
    /\ nextId' = nextId + 1
    /\ IF writable
       THEN /\ out' = Append(out, CallMsg(method, nextId, arg, decision))
            /\ pendingRequests' = MapSet(<<>>, nextId, [method |-> method, op |-> o])
       ELSE UNCHANGED <<out, pendingRequests>>

\* an rpc that takes the id and leaves the counter where it was
rpcReuse(method, arg, decision, o) ==
    /\ nextId' = nextId
    /\ IF writable
       THEN /\ out' = Append(out, CallMsg(method, nextId, arg, decision))
            /\ pendingRequests' =
                   MapSet(pendingRequests, nextId, [method |-> method, op |-> o])
       ELSE UNCHANGED <<out, pendingRequests>>

\* rpc(method, params) called by op o: nextId++, send, register the promise.
\* send throws when stdin is not writable; the id is consumed all the same.
rpc(method, arg, decision, o) ==
    /\ nextId' = nextId + 1
    /\ IF writable
       THEN /\ out' = Append(out, CallMsg(method, nextId, arg, decision))
            /\ pendingRequests' =
                   MapSet(pendingRequests, nextId, [method |-> method, op |-> o])
       ELSE UNCHANGED <<out, pendingRequests>>

RpcMethod(kind) ==
    CASE kind = "createThread" -> "thread/start"
      [] kind = "sendUserMessage" -> "turn/start"
      [] kind = "cancel" -> "turn/cancel"

\* createThread / sendUserMessage / cancel up to `await this.ready`
Invoke(kind, arg, session) ==
    /\ ops' = Append(ops, Op(kind, "awaitReady", arg, "", session))
    /\ UNCHANGED <<nextId, initRequestId, readyState, pendingRequests, pendingApprovals,
                   pendingNotificationApprovals, threadContexts, turnToThread,
                   pendingThreadNotifications, seenThreads, out, events, procState,
                   writable, lineThrew, nLines, commandExecutions, listeners, deliveries,
                   agentMessageBuffers, killed, store, forwarded>>

\* the public methods called from outside AgentManager
createThread(session) ==
    Invoke("createThread", "", session) /\ UNCHANGED <<sessions, mgrOps>>
sendUserMessage(threadId) ==
    Invoke("sendUserMessage", threadId, "") /\ UNCHANGED <<sessions, mgrOps>>
cancel(targetId) ==
    Invoke("cancel", targetId, "") /\ UNCHANGED <<sessions, mgrOps>>

\* an operation that does not wait for the handshake
ReadySkipped == TRUE

\* `await this.ready` lets the caller continue once the promise is settled
ReadySettled == readyState # "pending"

\* The continuation after `await this.ready`: the await throws when the
\* promise is rejected; otherwise the method issues its call.  Only cancel
\* wraps the call in try/catch.
AfterReady(o) ==
    /\ o \in DOMAIN ops
    /\ ops[o].pc = "awaitReady"
    /\ ReadySettled
    /\ IF readyState = "rejected"
       THEN /\ ops' = [ops EXCEPT ![o].pc = "rejected"]
            /\ UNCHANGED <<nextId, out, pendingRequests>>
       ELSE /\ rpc(RpcMethod(ops[o].kind), ops[o].arg, "", o)
            /\ ops' = [ops EXCEPT ![o] =
                         IF writable
                         THEN [@ EXCEPT !.pc = "awaitRpc", !.rpcState = "pending"]
                         ELSE IF @.kind = "cancel"
                         THEN [@ EXCEPT !.pc = "resolved"]
                         ELSE [@ EXCEPT !.pc = "rejected"]]
    /\ UNCHANGED <<initRequestId, readyState, pendingApprovals,
                   pendingNotificationApprovals, threadContexts, turnToThread,
                   pendingThreadNotifications, seenThreads, events, procState, writable,
                   lineThrew, nLines, commandExecutions, listeners, deliveries,
                   agentMessageBuffers, killed, store, forwarded, sessions, mgrOps>>

\* flushThreadNotification then emitThreadStarted, on (pending, seen, events)
flushThreadNotification(pendingTN, seen, evs, ctxs, t2t, threadId) ==
    IF threadId \in pendingTN
    THEN LET r == emitThreadStarted(seen, evs, ctxs, t2t, threadId)
         IN  [pending |-> pendingTN \ {threadId}, seen |-> r.seen, events |-> r.events]
    ELSE [pending |-> pendingTN, seen |-> seen, events |-> evs]

\* createThread after `await this.rpc("thread/start", ...)`.  An exception a
\* listener throws out of emitThreadStarted rejects the invocation.
createThreadResume(o) ==
    LET threadId == ops[o].resThread
        ctxs == MapSet(threadContexts, threadId,
                       [sessionId |-> Or(ops[o].session, threadId), cwd |-> "/w"])
        f == flushThreadNotification(pendingThreadNotifications, seenThreads, events,
                                     ctxs, turnToThread, threadId)
        e == emitThreadStarted(f.seen, f.events, ctxs, turnToThread, threadId)
    IN  IF ops[o].rpcState = "rejected" \/ threadId = ""
        THEN /\ ops' = [ops EXCEPT ![o].pc = "rejected"]
             /\ UNCHANGED <<threadContexts, turnToThread, pendingThreadNotifications,
                            seenThreads, events, commandExecutions, listeners, deliveries,
                            agentMessageBuffers, store, forwarded>>
        ELSE /\ threadContexts' = ctxs
             /\ pendingThreadNotifications' = f.pending
             /\ seenThreads' = e.seen
             /\ events' = e.events
             /\ emitEvent
             /\ ops' = IF e.events # events /\ ListenerThrows
                       THEN [ops EXCEPT ![o].pc = "rejected"]
                       ELSE [ops EXCEPT ![o].pc = "resolved", ![o].value = threadId]
             /\ UNCHANGED <<turnToThread, commandExecutions, listeners,
                            agentMessageBuffers>>

\* a continuation that returns the turn id and records nothing
sendUserMessageForget(o) ==
    /\ ops' = [ops EXCEPT ![o].pc = IF ops[o].rpcState = "rejected" \/ ops[o].resTurn = ""
                                    THEN "rejected" ELSE "resolved",
                          ![o].value = ops[o].resTurn]
    /\ UNCHANGED <<threadContexts, turnToThread, pendingThreadNotifications, seenThreads,
                   events, commandExecutions, listeners, deliveries, agentMessageBuffers,
                   store, forwarded>>

\* sendUserMessage after `await this.rpc("turn/start", ...)`
sendUserMessageResume(o) ==
    LET turnId == ops[o].resTurn
    IN  IF ops[o].rpcState = "rejected" \/ turnId = ""
        THEN /\ ops' = [ops EXCEPT ![o].pc = "rejected"]
             /\ UNCHANGED <<threadContexts, turnToThread, pendingThreadNotifications,
                            seenThreads, events, commandExecutions, listeners, deliveries,
                            agentMessageBuffers, store, forwarded>>
        ELSE /\ turnToThread' = MapSet(turnToThread, turnId, ops[o].arg)
             /\ ops' = [ops EXCEPT ![o].pc = "resolved", ![o].value = turnId]
             /\ UNCHANGED <<threadContexts, pendingThreadNotifications, seenThreads,
                            events, commandExecutions, listeners, deliveries,
                            agentMessageBuffers, store, forwarded>>

\* a continuation that lets the rejection of the call through
rethrowResume(o) ==
    /\ ops' = [ops EXCEPT ![o].pc = IF ops[o].rpcState = "rejected"
                                    THEN "rejected" ELSE "resolved"]
    /\ UNCHANGED <<threadContexts, turnToThread, pendingThreadNotifications, seenThreads,
                   events, commandExecutions, listeners, deliveries, agentMessageBuffers,
                   store, forwarded>>

\* cancel and respondApproval after their call settled: try { await } catch { return }
swallowResume(o) ==
    /\ ops' = [ops EXCEPT ![o].pc = "resolved"]
    /\ UNCHANGED <<threadContexts, turnToThread, pendingThreadNotifications, seenThreads,
                   events, commandExecutions, listeners, deliveries, agentMessageBuffers,
                   store, forwarded>>

\* The continuation after `await this.rpc(...)`, once the promise is settled.
AfterRpc(o) ==
    /\ o \in DOMAIN ops
    /\ ops[o].pc = "awaitRpc"
    /\ ops[o].rpcState \in {"resolved", "rejected"}
    /\ CASE ops[o].kind = "createThread" -> createThreadResume(o)
         [] ops[o].kind = "sendUserMessage" -> sendUserMessageResume(o)
         [] OTHER -> swallowResume(o)
    /\ UNCHANGED <<nextId, initRequestId, readyState, pendingRequests, pendingApprovals,
                   pendingNotificationApprovals, out, procState, writable, lineThrew,
                   nLines, killed, sessions, mgrOps>>

\* the sequence without the handler, the others in their order
RECURSIVE Without(_, _)
Without(ls, handler) ==
    IF ls = <<>> THEN <<>>
    ELSE IF ls[1] = handler THEN Without(SubSeq(ls, 2, Len(ls)), handler)
    ELSE <<ls[1]>> \o Without(SubSeq(ls, 2, Len(ls)), handler)

\* The function onEvent(handler) returned: listeners.delete(handler).  Calling
\* it when the handler is not in the set changes nothing.
unregister(handler) ==
    /\ \E k \in DOMAIN listeners : listeners[k] = handler
    /\ listeners' = Without(listeners, handler)
    /\ UNCHANGED <<nextId, initRequestId, readyState, pendingRequests, pendingApprovals,
                   pendingNotificationApprovals, threadContexts, turnToThread,
                   pendingThreadNotifications, seenThreads, out, events, ops, procState,
                   writable, lineThrew, nLines, commandExecutions, deliveries,
                   agentMessageBuffers, killed, store, forwarded, sessions, mgrOps>>

\* the decisions of the peer's protocol, the argument type of a responder
ProtocolDecisions == {"accept", "decline"}

\* The responders a listener can hold: those of the approval.request events
\* that were handed to some listener, as (approval id, request id).
Responders ==
    {p \in {events[e].approvalId :
               e \in {i \in DOMAIN events :
                         /\ events[i].type = "approval.request"
                         /\ events[i].responder
                         /\ deliveries[i] # {}}} \X RequestIds :
        String(p[2]) = p[1]}

\* payload.respond(decision), called by a listener on the event it was
\* handed: this.send({ id: requestId, result: { decision } }).  send throws
\* into the listener when stdin is not writable.
respond(approvalId, decision) ==
    /\ writable
    /\ \E p \in Responders :
           /\ p[1] = approvalId
           /\ out' = Append(out, ResultMsg(p[2], decision))
    /\ UNCHANGED <<nextId, initRequestId, readyState, pendingRequests, pendingApprovals,
                   pendingNotificationApprovals, threadContexts, turnToThread,
                   pendingThreadNotifications, seenThreads, events, ops, procState,
                   writable, lineThrew, nLines, commandExecutions, listeners, deliveries,
                   agentMessageBuffers, killed, store, forwarded, sessions, mgrOps>>

\* a ticket test that takes every identifier for a notification-backed ticket
notificationTicketAssumed(approvalId) == TRUE

\* pendingNotificationApprovals.has(approvalId)
notificationTicketPending(approvalId) == approvalId \in pendingNotificationApprovals

\* a respondApproval that drops the request-backed ticket before it sends
respondApprovalDeleteFirst(approvalId, decision) ==
    LET o == Len(ops) + 1
        new == Op("respondApproval", "resolved", approvalId, decision, "")
    IN  /\ IF approvalId \in DOMAIN pendingApprovals
           THEN /\ pendingApprovals' = MapDelete(pendingApprovals, approvalId)
                /\ IF writable
                   THEN /\ out' = Append(out, ResultMsg(pendingApprovals[approvalId],
                                                        mapDecision(decision)))
                        /\ ops' = Append(ops, new)
                   ELSE /\ ops' = Append(ops, [new EXCEPT !.pc = "rejected"])
                        /\ UNCHANGED out
                /\ UNCHANGED <<nextId, pendingRequests>>
           ELSE IF notificationTicketPending(approvalId)
                THEN /\ rpc("approval/respond", approvalId, mapDecision(decision), o)
                     /\ ops' = Append(ops,
                                 IF writable
                                 THEN [new EXCEPT !.pc = "awaitRpc", !.rpcState = "pending"]
                                 ELSE new)
                     /\ UNCHANGED pendingApprovals
                ELSE /\ ops' = Append(ops, new)
                     /\ UNCHANGED <<out, pendingApprovals, nextId, pendingRequests>>
        /\ UNCHANGED <<initRequestId, readyState, pendingNotificationApprovals,
                       threadContexts, turnToThread, pendingThreadNotifications,
                       seenThreads, events, procState, writable, lineThrew, nLines,
                       commandExecutions, listeners, deliveries, agentMessageBuffers,
                       killed, store, forwarded>>

\* respondApproval up to its first await (or to its end).
respondApproval(approvalId, decision) ==
    LET o == Len(ops) + 1
        new == Op("respondApproval", "resolved", approvalId, decision, "")
    IN  /\ IF approvalId \in DOMAIN pendingApprovals
           THEN IF writable
                THEN /\ out' = Append(out, ResultMsg(pendingApprovals[approvalId],
                                                     mapDecision(decision)))
                     /\ pendingApprovals' = MapDelete(pendingApprovals, approvalId)
                     /\ ops' = Append(ops, new)
                     /\ UNCHANGED <<nextId, pendingRequests>>
                ELSE /\ ops' = Append(ops, [new EXCEPT !.pc = "rejected"])
                     /\ UNCHANGED <<out, pendingApprovals, nextId, pendingRequests>>
           ELSE IF notificationTicketPending(approvalId)
                THEN /\ rpc("approval/respond", approvalId, mapDecision(decision), o)
                     /\ ops' = Append(ops,
                                 IF writable
                                 THEN [new EXCEPT !.pc = "awaitRpc", !.rpcState = "pending"]
                                 ELSE new)
                     /\ UNCHANGED pendingApprovals
                ELSE /\ ops' = Append(ops, new)
                     /\ UNCHANGED <<out, pendingApprovals, nextId, pendingRequests>>
        /\ UNCHANGED <<initRequestId, readyState, pendingNotificationApprovals,
                       threadContexts, turnToThread, pendingThreadNotifications,
                       seenThreads, events, procState, writable, lineThrew, nLines,
                       commandExecutions, listeners, deliveries, agentMessageBuffers,
                       killed, store, forwarded>>

\* onEvent(handler): listeners.add(handler); a handler already in the set
\* keeps its place.
onEvent(handler) ==
    /\ listeners' = IF \E k \in DOMAIN listeners : listeners[k] = handler
                    THEN listeners
                    ELSE Append(listeners, handler)
    /\ UNCHANGED <<nextId, initRequestId, readyState, pendingRequests, pendingApprovals,
                   pendingNotificationApprovals, threadContexts, turnToThread,
                   pendingThreadNotifications, seenThreads, out, events, ops, procState,
                   writable, lineThrew, nLines, commandExecutions, deliveries,
                   agentMessageBuffers, killed, store, forwarded, sessions, mgrOps>>

\* a shutdown that fails once the process has been signalled or is gone
shutdownOnce ==
    /\ ops' = Append(ops, Op("shutdown",
                             IF killed \/ procState # "running"
                             THEN "rejected" ELSE "resolved", "", "", ""))
    /\ killed' = (killed \/ procState = "running")
    /\ UNCHANGED <<nextId, initRequestId, readyState, pendingRequests, pendingApprovals,
                   pendingNotificationApprovals, threadContexts, turnToThread,
                   pendingThreadNotifications, seenThreads, out, events, procState,
                   writable, lineThrew, nLines, commandExecutions, listeners, deliveries,
                   agentMessageBuffers, store, forwarded, sessions, mgrOps>>

\* shutdown(): logStream.end() and proc.kill().  kill() delivers the signal to
\* a process that is running and returns false, without throwing, for one
\* that is gone; the process then exits in a step of its own (procExit).
\* The log stream is not part of the model.
shutdown ==
    /\ ops' = Append(ops, Op("shutdown", "resolved", "", "", ""))
    /\ killed' = (killed \/ procState = "running")
    /\ UNCHANGED <<nextId, initRequestId, readyState, pendingRequests, pendingApprovals,
                   pendingNotificationApprovals, threadContexts, turnToThread,
                   pendingThreadNotifications, seenThreads, out, events, procState,
                   writable, lineThrew, nLines, commandExecutions, listeners, deliveries,
                   agentMessageBuffers, store, forwarded, sessions, mgrOps>>

\* ---------------------------------------------------------- process events
\* failAll that rejects the calls but leaves them in the table
failAllNoClear ==
    /\ readyState' = Settle(readyState, "rejected")
    /\ ops' = [o \in DOMAIN ops |->
                 IF \E id \in DOMAIN pendingRequests : pendingRequests[id].op = o
                 THEN SettleRpc(ops[o], "rejected", "", "")
                 ELSE ops[o]]
    /\ UNCHANGED pendingRequests

\* a failAll that rejects readiness and leaves the pending calls alone
failAllReadyOnly ==
    /\ readyState' = Settle(readyState, "rejected")
    /\ UNCHANGED <<ops, pendingRequests>>

\* failAll: reject readiness, reject every pending call, clear the table.
failAll ==
    /\ readyState' = Settle(readyState, "rejected")
    /\ ops' = [o \in DOMAIN ops |->
                 IF \E id \in DOMAIN pendingRequests : pendingRequests[id].op = o
                 THEN SettleRpc(ops[o], "rejected", "", "")
                 ELSE ops[o]]
    /\ pendingRequests' = <<>>

ErrorEvent == Event("error", "unknown", "unknown", "", "", FALSE, TRUE)

\* proc.on("error")
procError ==
    /\ procState = "running"
    /\ procState' = "errored"
    /\ failAll
    /\ UNCHANGED <<nextId, initRequestId, pendingApprovals, pendingNotificationApprovals,
                   threadContexts, turnToThread, pendingThreadNotifications, seenThreads,
                   out, events, writable, lineThrew, nLines, commandExecutions, listeners,
                   deliveries, agentMessageBuffers, killed, store, forwarded, sessions,
                   mgrOps>>

\* proc.on("exit").  The runtime destroys the child's stdin stream before it
\* emits `exit`, so `this.proc.stdin.writable` is false from the handler on.
procExit ==
    /\ procState # "exited"
    /\ procState' = "exited"
    /\ writable' = FALSE
    /\ failAll
    /\ events' = Append(events, ErrorEvent)
    /\ emitEvent
    /\ UNCHANGED <<nextId, initRequestId, pendingApprovals, pendingNotificationApprovals,
                   threadContexts, turnToThread, pendingThreadNotifications, seenThreads,
                   out, lineThrew, nLines, commandExecutions, listeners,
                   agentMessageBuffers, killed, sessions, mgrOps>>

\* The peer's stdin closes (the peer went away or closed the pipe).
stdinClose ==
    /\ writable
    /\ writable' = FALSE
    /\ UNCHANGED <<nextId, initRequestId, readyState, pendingRequests, pendingApprovals,
                   pendingNotificationApprovals, threadContexts, turnToThread,
                   pendingThreadNotifications, seenThreads, out, events, ops, procState,
                   lineThrew, nLines, commandExecutions, listeners, deliveries,
                   agentMessageBuffers, killed, store, forwarded, sessions, mgrOps>>

\* ------------------------------------------------------------- the inputs
Params(threadId, thread, turnId, turn, approvalId) ==
    [NoParams EXCEPT !.threadId = threadId, !.thread = thread, !.turnId = turnId,
                     !.turn = turn, !.approvalId = approvalId]

\* A response may carry null, any id issued so far, or the next, unissued one.
ResponseIds == {NullId} \cup (FirstId..nextId)

\* The result of a response: nothing of interest, a thread id, or a turn id.
ResponseResults ==
    {<<"", "">>} \cup {<<t, "">> : t \in Threads} \cup {<<"", u>> : u \in Turns}

Responses ==
    {Line("", id, err, r[1], r[2], NoParams) :
        id \in ResponseIds, err \in BOOLEAN, r \in ResponseResults}

ApprovalParams ==
    {Params(t, "", u, "", a) : t \in Threads, u \in Turns, a \in {"", "a", "7"}}
        \cup {NoParams}

ServerRequests ==
    {Line(ApprovalMethod, id, FALSE, "", "", p) : id \in RequestIds, p \in ApprovalParams}
        \cup {Line(OtherRequestMethod, id, FALSE, "", "", NoParams) : id \in RequestIds}

Notifications ==
    {Line("thread/started", NoId, FALSE, "", "", Params("", t, "", "", "")) :
        t \in Threads \cup {""}}
        \cup {Line("turn/started", NoId, FALSE, "", "", Params(t, "", "", u, "")) :
                 t \in Threads, u \in Turns}
        \cup {Line(ApprovalMethod, NoId, FALSE, "", "", p) : p \in ApprovalParams}

\* The low-level command events of the peer: params carries the thread as
\* conversationId and the turn as id, params.msg the call id and the chunk.
ExecThreads == {"t1", "t2"}
ExecTurns == {"u1", "u2"}
CallIds == {"c1"}
Chunks == {"", "b3V0"}

ExecParams(thread, turn, callId, chunk) ==
    [NoParams EXCEPT !.conversationId = thread, !.id = turn,
                     !.msg = [NoMsg EXCEPT !.call_id = callId, !.chunk = chunk]]

ExecLines ==
    {Line(m, NoId, FALSE, "", "", ExecParams(t, u, c, "")) :
        m \in {"codex/event/exec_command_begin", "codex/event/exec_command_end"},
        t \in ExecThreads \cup {""}, u \in ExecTurns \cup {""}, c \in CallIds}
        \cup {Line("codex/event/exec_command_output_delta", NoId, FALSE, "", "",
                   ExecParams(t, u, c, k)) :
                 t \in ExecThreads \cup {""}, u \in ExecTurns \cup {""}, c \in CallIds,
                 k \in Chunks}

\* The turn and item notifications of the peer: the end of a turn, the start
\* and end of an agent message, and text deltas of each kind.
ItemIds == {"i1"}
Deltas == {"a", "b"}

ItemParams(threadId, turnId, turn, item, itemObjectId, itemId, delta) ==
    [NoParams EXCEPT !.threadId = threadId, !.turnId = turnId, !.turn = turn,
                     !.item = item, !.itemObjectId = itemObjectId, !.itemId = itemId,
                     !.delta = delta]

ItemLines ==
    {Line("turn/completed", NoId, FALSE, "", "", ItemParams(t, "", u, "", "", "", "")) :
        t \in Threads, u \in Turns}
        \cup {Line(m, NoId, FALSE, "", "", ItemParams(t, u, "", "agentMessage", i, "", "")) :
                 m \in {"item/started", "item/completed"}, t \in Threads, u \in Turns,
                 i \in ItemIds}
        \cup {Line(m, NoId, FALSE, "", "", ItemParams(t, u, "", "", "", i, d)) :
                 m \in DOMAIN DeltaKind, t \in Threads, u \in Turns,
                 i \in ItemIds \cup {""}, d \in Deltas}

\* Output chunks of a command: base64 of the shape the decoder accepts
\* (unpadded, padded once and twice, two groups, a last group with spare
\* bits set), and text it must pass through (a length that is no multiple of
\* four, characters outside the alphabet, padding that is too long or
\* misplaced).
Base64Chunks == {"b3V0", "b3U=", "bw==", "bx==", "b3V0cHV0", "ZG9uZQ==", "MTIz"}
PlainChunks == {"out", "o.k.", "a===", "b3=V", "b3V0b"}

ChunkLines ==
    {Line("codex/event/exec_command_output_delta", NoId, FALSE, "", "",
          ExecParams("t1", "u1", "c1", k)) :
        k \in Base64Chunks \cup PlainChunks \cup {""}}

\* Agent messages in the making: deltas for two items or for none, the end
\* of either message, and the start and the end of an item of another type.
BufferItems == {"i1", "i2"}

BufferLines ==
    {Line("item/agentMessage/delta", NoId, FALSE, "", "",
          ItemParams("t1", "u1", "", "", "", i, d)) : i \in BufferItems, d \in Deltas}
        \cup {Line("item/agentMessage/delta", NoId, FALSE, "", "",
                   ItemParams("t1", "u1", "", "", "", "", "a"))}
        \cup {Line("item/completed", NoId, FALSE, "", "",
                   ItemParams("t1", "u1", "", "agentMessage", i, "", "")) : i \in BufferItems}
        \cup {Line(m, NoId, FALSE, "", "",
                   ItemParams("t1", "u1", "", "commandExecution", "i1", "", "")) :
                 m \in {"item/started", "item/completed"}}

\* Approval notifications addressed to any thread and turn, or to none.
ResolveLines ==
    {Line(ApprovalMethod, NoId, FALSE, "", "", Params(t, "", u, "", "a")) :
        t \in ExecThreads \cup {""}, u \in ExecTurns \cup {""}}

\* The Thread Context tables createThread can have built: each thread is
\* unknown, or registered under the caller's session or under its own id.
ContextMaps ==
    UNION {[S -> Sessions \cup ExecThreads] : S \in SUBSET ExecThreads}

\* The turn-to-thread indexes turn/started and sendUserMessage can have built.
TurnMaps == UNION {[S -> ExecThreads] : S \in SUBSET ExecTurns}

\* The bridge after any number of createThread / sendUserMessage / turn/started:
\* the handshake is over as soon as a thread is registered, and one id was
\* spent per registered thread.  out, events and ops log what happens from
\* this state on.
InitResolve ==
    /\ \E m \in ContextMaps :
          /\ \A t \in DOMAIN m : m[t] \in Sessions \cup {t}
          /\ threadContexts = [t \in DOMAIN m |-> [sessionId |-> m[t], cwd |-> "/w"]]
    /\ turnToThread \in TurnMaps
    /\ seenThreads = DOMAIN threadContexts
    /\ readyState = IF threadContexts = <<>> THEN "pending" ELSE "resolved"
    /\ initRequestId = IF threadContexts = <<>> THEN FirstId ELSE NullId
    /\ nextId = FirstId + 1 + Cardinality(DOMAIN threadContexts)
    /\ pendingRequests = <<>>
    /\ pendingApprovals = <<>>
    /\ pendingNotificationApprovals = {}
    /\ pendingThreadNotifications = {}
    /\ out = <<>>
    /\ events = <<>>
    /\ ops = <<>>
    /\ procState = "running"
    /\ writable = TRUE
    /\ lineThrew = FALSE
    /\ nLines = 0
    /\ commandExecutions = <<>>
    /\ listeners = <<>>
    /\ deliveries = <<>>
    /\ agentMessageBuffers = <<>>
    /\ killed = FALSE
    /\ store = EmptyStore("memory")
    /\ forwarded = <<>>
    /\ sessions = [s \in Sessions |-> ""]
    /\ mgrOps = <<>>

\* Notifications the bridge has no use for: an unknown method, and known
\* methods without the thread / turn ids they need.
UnknownMethod == "thread/archived"

DroppedLines ==
    {Line(UnknownMethod, NoId, FALSE, "", "", Params(t, "", "", "", "")) :
        t \in Threads \cup {""}}
        \cup {Line("thread/started", NoId, FALSE, "", "", NoParams)}
        \cup {Line("turn/started", NoId, FALSE, "", "", Params(t, "", "", "", "")) :
                 t \in Threads \cup {""}}
        \cup {l \in ExecLines : l.params.conversationId = "" \/ l.params.id = ""}

Lines == Responses \cup ServerRequests \cup Notifications

\* ---------------------------------------------- AgentManager's operations
\* the state of the bridge, as the manager's own continuations leave it
transportVars ==
    <<nextId, initRequestId, readyState, pendingRequests, pendingApprovals,
      pendingNotificationApprovals, threadContexts, turnToThread,
      pendingThreadNotifications, seenThreads, out, events, ops, procState,
      writable, lineThrew, nLines, commandExecutions, listeners, deliveries,
      agentMessageBuffers, killed>>

\* One invocation of an async method of AgentManager.  pc: awaitThread
\* (suspended in ensureThread at `await this.transport.createThread`),
\* awaitTurn (at `await this.transport.sendUserMessage`), awaitRespond (at
\* `await this.transport.respondApproval`), resolved / rejected.  tOp is the
\* transport invocation it awaits, threadId the codexThreadId of the session
\* object it holds, value the turn id it returned.
MgrOp(kind, pc, session, arg, decision, tOp, threadId) ==
    [kind |-> kind, pc |-> pc, session |-> session, arg |-> arg, decision |-> decision,
     tOp |-> tOp, threadId |-> threadId, value |-> ""]

\* the promise of the awaited transport invocation is settled
TransportSettled(m) ==
    /\ mgrOps[m].tOp \in DOMAIN ops
    /\ ops[mgrOps[m].tOp].pc \in {"resolved", "rejected"}

\* sendMessage(sessionId, message) up to its first suspension: getSession,
\* then ensureThread, which returns the session's thread id or calls
\* createThread; with a thread id at hand sendUserMessage is called.
sendMessage(sessionId) ==
    IF sessionId \notin DOMAIN sessions
    THEN /\ mgrOps' = Append(mgrOps, MgrOp("sendMessage", "rejected", sessionId, "", "",
                                           0, ""))
         /\ UNCHANGED <<transportVars, store, forwarded, sessions>>
    ELSE IF sessions[sessionId] # ""
    THEN /\ Invoke("sendUserMessage", sessions[sessionId], "")
         /\ mgrOps' = Append(mgrOps, MgrOp("sendMessage", "awaitTurn", sessionId, "", "",
                                           Len(ops) + 1, sessions[sessionId]))
         /\ UNCHANGED sessions
    ELSE /\ Invoke("createThread", "", sessionId)
         /\ mgrOps' = Append(mgrOps, MgrOp("sendMessage", "awaitThread", sessionId, "", "",
                                           Len(ops) + 1, ""))
         /\ UNCHANGED sessions

\* ensureThread after `await this.transport.createThread(...)`, and sendMessage
\* up to `await this.transport.sendUserMessage(threadId, message)`
ensureThreadResume(m) ==
    /\ m \in DOMAIN mgrOps
    /\ mgrOps[m].pc = "awaitThread"
    /\ TransportSettled(m)
    /\ IF ops[mgrOps[m].tOp].pc = "rejected"
       THEN /\ mgrOps' = [mgrOps EXCEPT ![m].pc = "rejected"]
            /\ UNCHANGED <<transportVars, store, forwarded, sessions>>
       ELSE LET threadId == ops[mgrOps[m].tOp].value
            IN  /\ sessions' = [sessions EXCEPT ![mgrOps[m].session] = threadId]
                /\ Invoke("sendUserMessage", threadId, "")
                /\ mgrOps' = [mgrOps EXCEPT ![m].pc = "awaitTurn",
                                            ![m].tOp = Len(ops) + 1,
                                            ![m].threadId = threadId]

\* sendMessage after `await this.transport.sendUserMessage(...)`: createTurn,
\* addTimelineItem, updateSession(session).  MemoryStore hands out the stored
\* session object itself; SqliteStore hands out a copy of the row, and
\* updateSession writes the copy's codexThreadId back.
sendMessageResume(m) ==
    /\ m \in DOMAIN mgrOps
    /\ mgrOps[m].pc = "awaitTurn"
    /\ TransportSettled(m)
    /\ LET turnId == ops[mgrOps[m].tOp].value
           s == mgrOps[m].session
       IN  IF ops[mgrOps[m].tOp].pc = "rejected" \/ createTurnThrows(store, turnId)
           THEN /\ mgrOps' = [mgrOps EXCEPT ![m].pc = "rejected"]
                /\ UNCHANGED <<store, sessions>>
           ELSE /\ store' = addTimelineItem(createTurn(store, turnId), s, turnId,
                                            "message", UserMessage)
                /\ sessions' = IF store.kind = "sqlite"
                               THEN [sessions EXCEPT ![s] = mgrOps[m].threadId]
                               ELSE sessions
                /\ mgrOps' = [mgrOps EXCEPT ![m].pc = "resolved", ![m].value = turnId]
    /\ UNCHANGED <<transportVars, forwarded>>

\* AgentManager.respondApproval(input) up to
\* `await this.transport.respondApproval(input.approvalId, input.decision, ...)`
managerRespondApproval(approvalId, decision) ==
    /\ respondApproval(approvalId, decision)
    /\ mgrOps' = Append(mgrOps, MgrOp("respondApproval", "awaitRespond", "", approvalId,
                                      decision, Len(ops) + 1, ""))
    /\ UNCHANGED sessions

\* new Date().toISOString() as read by invocation m
Now(m) == m

\* AgentManager.respondApproval after the await: getApproval, and
\* updateApprovalStatus when the approval is stored
managerRespondApprovalResume(m) ==
    /\ m \in DOMAIN mgrOps
    /\ mgrOps[m].pc = "awaitRespond"
    /\ TransportSettled(m)
    /\ IF ops[mgrOps[m].tOp].pc = "rejected"
       THEN /\ mgrOps' = [mgrOps EXCEPT ![m].pc = "rejected"]
            /\ UNCHANGED store
       ELSE /\ store' = updateApprovalStatus(
                            store, mgrOps[m].arg,
                            IF StartsWith(mgrOps[m].decision, "approve")
                            THEN "approved" ELSE "denied",
                            Now(m))
            /\ mgrOps' = [mgrOps EXCEPT ![m].pc = "resolved"]
    /\ UNCHANGED <<transportVars, forwarded, sessions>>

\* The host as it is wired: a store of either kind, its session without a
\* thread, and the manager registered as the transport's listener.
InitManager ==
    /\ nextId = FirstId + 1
    /\ initRequestId = FirstId
    /\ readyState = "pending"
    /\ pendingRequests = <<>>
    /\ pendingApprovals = <<>>
    /\ pendingNotificationApprovals = {}
    /\ threadContexts = <<>>
    /\ turnToThread = <<>>
    /\ pendingThreadNotifications = {}
    /\ seenThreads = {}
    /\ out = <<CallMsg("initialize", FirstId, "", "")>>
    /\ events = <<>>
    /\ ops = <<>>
    /\ procState = "running"
    /\ writable = TRUE
    /\ lineThrew = FALSE
    /\ nLines = 0
    /\ commandExecutions = <<>>
    /\ listeners = <<Manager>>
    /\ deliveries = <<>>
    /\ agentMessageBuffers = <<>>
    /\ killed = FALSE
    /\ \E kind \in StoreKinds : store = EmptyStore(kind)
    /\ forwarded = <<>>
    /\ sessions = [s \in Sessions |-> ""]
    /\ mgrOps = <<>>

\* Concurrent sendMessage calls on the sessions of the store: the peer answers
\* the handshake, then each call with a thread id or a turn id.
MaxSendLines == 4
MaxSends == 2

SendLines ==
    {Line("", id, FALSE, r[1], r[2], NoParams) :
        id \in FirstId..nextId,
        r \in {<<t, "">> : t \in ExecThreads} \cup {<<"", u>> : u \in ExecTurns}}

SpecSends ==
    InitManager
        /\ [][\/ nLines < MaxSendLines /\ \E msg \in SendLines : handleLine(msg)
              \/ Len(mgrOps) < MaxSends /\ \E s \in Sessions \cup {"s9"} : sendMessage(s)
              \/ \E o \in DOMAIN ops : AfterReady(o)
              \/ \E o \in DOMAIN ops : AfterRpc(o)
              \/ \E m \in DOMAIN mgrOps : ensureThreadResume(m)
              \/ \E m \in DOMAIN mgrOps : sendMessageResume(m)]_vars

\* Approval ids a caller can name: those it saw in an event, and two it made up.
KnownApprovalIds ==
    {events[i].approvalId : i \in {j \in DOMAIN events : events[j].type = "approval.request"}}
        \cup {"7", "0"}

\* The approvals of the host: the peer asks for approval by request or by
\* notification, and callers answer through AgentManager.respondApproval.
MaxStoreLines == 2
MaxStoreOps == 2

StoreLines ==
    {l \in ServerRequests \cup Notifications : l.method = ApprovalMethod}
        \cup {l \in Responses : l.resultThread = "" /\ l.resultTurn = ""}

SpecStore ==
    InitManager
        /\ [][\/ nLines < MaxStoreLines /\ \E msg \in StoreLines : handleLine(msg)
              \/ Len(mgrOps) < MaxStoreOps
                 /\ \E a \in KnownApprovalIds, d \in Decisions : managerRespondApproval(a, d)
              \/ \E o \in DOMAIN ops : AfterRpc(o)
              \/ \E m \in DOMAIN mgrOps : managerRespondApprovalResume(m)]_vars

\* The bridge as a whole: responses, peer requests and the thread, turn and
\* approval notifications; every public operation; every process event.
Next ==
    \/ nLines < MaxLines /\ \E msg \in Lines : handleLine(msg)
    \/ Len(ops) < MaxOps /\ \E s \in Sessions \cup {""} : createThread(s)
    \/ Len(ops) < MaxOps /\ \E t \in Threads : sendUserMessage(t)
    \/ Len(ops) < MaxOps /\ \E u \in Turns : cancel(u)
    \/ Len(ops) < MaxOps /\ \E a \in KnownApprovalIds, d \in Decisions : respondApproval(a, d)
          /\ UNCHANGED <<sessions, mgrOps>>
    \/ \E o \in DOMAIN ops : AfterReady(o)
    \/ \E o \in DOMAIN ops : AfterRpc(o)
    \/ procError
    \/ procExit
    \/ stdinClose

Spec == Init /\ [][Next]_vars

\* The bridge without the approval workflow: the handshake, the correlated
\* calls of createThread / sendUserMessage / cancel, the thread bookkeeping
\* and the process events, over responses and thread/started notifications.
CoreLines ==
    Responses \cup {l \in Notifications : l.method = "thread/started"}

CoreStep(maxLines, maxOps) ==
    \/ nLines < maxLines /\ \E msg \in CoreLines : handleLine(msg)
    \/ Len(ops) < maxOps /\ \E s \in Sessions \cup {""} : createThread(s)
    \/ Len(ops) < maxOps /\ \E t \in Threads : sendUserMessage(t)
    \/ Len(ops) < maxOps /\ \E u \in Turns : cancel(u)
    \/ \E o \in DOMAIN ops : AfterReady(o)
    \/ \E o \in DOMAIN ops : AfterRpc(o)
    \/ procError
    \/ procExit
    \/ stdinClose

\* Deep in lines, for the races between responses and notifications.
SpecThreads == Init /\ [][CoreStep(MaxThreadLines, MaxThreadOps)]_vars

\* Wide in concurrent calls, for the correlation table at process loss.
SpecCalls == Init /\ [][CoreStep(MaxCallLines, MaxCallOps)]_vars

\* The bridge with listeners: the steps of the core bridge, and callers that
\* register handlers at any moment.
SpecListeners ==
    Init /\ [][\/ \E h \in Handlers : onEvent(h)
               \/ CoreStep(MaxListenerLines, MaxListenerOps)]_vars

\* The same, with callers that also call the unregister functions they hold.
SpecUnregister ==
    Init /\ [][\/ \E h \in Handlers : onEvent(h)
               \/ \E h \in Handlers : unregister(h)
               \/ CoreStep(MaxListenerLines, MaxListenerOps)]_vars

\* The bridge under the peer's command events: begin, output deltas and end
\* of command executions, carrying any thread / turn ids or none.
SpecExec ==
    Init /\ [][nLines < MaxExecLines /\ \E msg \in ExecLines : handleLine(msg)]_vars

\* Session resolution: from any tables the bridge can have built, the peer
\* sends approval notifications addressed to any (thread, turn) pair.
SpecResolve ==
    InitResolve
        /\ [][nLines < MaxResolveLines /\ \E msg \in ResolveLines : handleLine(msg)]_vars

\* The inbound side alone: every kind of line the peer can write, objects or
\* not, addressed or not.
SpecInbound ==
    Init /\ [][\/ nLines < MaxInboundLines
                  /\ \E msg \in Notifications \cup DroppedLines \cup ExecLines :
                        handleLine(msg)
               \/ nLines < MaxInboundLines
                  /\ \E kind \in NonObjectLines : handleNonObjectLine(kind)]_vars

\* The event stream: the peer's turn and item notifications and its
\* thread/started, interleaved with a createThread call, its answer and the
\* loss of the peer.
OrderLines ==
    {l \in Responses : ~l.isError /\ l.id # NullId /\ l.resultThread # ""}
        \cup {l \in Notifications : l.method = "thread/started" /\ l.params.thread # ""}
        \cup {l \in ItemLines :
                 \/ l.method \in {"turn/completed", "item/completed"}
                 \/ l.method = "item/agentMessage/delta" /\ l.params.itemId # ""}

SpecOrder ==
    Init /\ [][\/ nLines < MaxOrderLines /\ \E msg \in OrderLines : handleLine(msg)
               \/ Len(ops) < MaxOrderOps /\ createThread("")
               \/ \E o \in DOMAIN ops : AfterReady(o)
               \/ \E o \in DOMAIN ops : AfterRpc(o)
               \/ procExit]_vars

\* The output of a command, chunk by chunk.
SpecChunks ==
    Init /\ [][nLines < MaxChunkLines /\ \E msg \in ChunkLines : handleLine(msg)]_vars

\* The decisions of a caller: one request-backed and one notification-backed
\* ticket, answered with any decision name.
DecisionLines ==
    {Line(ApprovalMethod, 7, FALSE, "", "", NoParams),
     Line(ApprovalMethod, NoId, FALSE, "", "", Params("t1", "", "u1", "", "a"))}

SpecDecisions ==
    Init /\ [][\/ nLines < MaxDecisionLines /\ \E msg \in DecisionLines : handleLine(msg)
               \/ Len(ops) < MaxDecisionOps
                  /\ \E a \in KnownApprovalIds, d \in DecisionNames : respondApproval(a, d)
                  /\ UNCHANGED <<sessions, mgrOps>>
               \/ \E o \in DOMAIN ops : AfterRpc(o)
               \/ procExit]_vars

\* The responders: listeners that are handed approval requests and answer
\* them through the responder of the event, through respondApproval, or
\* both.
SpecResponder ==
    Init /\ [][\/ \E h \in Handlers : onEvent(h)
               \/ nLines < MaxResponderLines /\ \E msg \in ServerRequests : handleLine(msg)
               \/ Len(out) < MaxResponderSends
                  /\ \E a \in KnownApprovalIds, d \in ProtocolDecisions : respond(a, d)
               \/ Len(ops) < MaxResponderOps
                  /\ \E a \in KnownApprovalIds, d \in Decisions : respondApproval(a, d)
                  /\ UNCHANGED <<sessions, mgrOps>>
               \/ \E o \in DOMAIN ops : AfterRpc(o)
               \/ procExit
               \/ stdinClose]_vars

\* Thread creation alone: callers that create threads under a session id or
\* under none, and a peer that answers with any thread id or none.
SpecContexts ==
    Init /\ [][\/ nLines < MaxContextLines /\ \E msg \in Responses : handleLine(msg)
               \/ Len(ops) < MaxContextOps /\ \E s \in Sessions \cup {""} : createThread(s)
               \/ \E o \in DOMAIN ops : AfterReady(o)
               \/ \E o \in DOMAIN ops : AfterRpc(o)]_vars

\* The turns: callers that start turns on either thread, and a peer that
\* answers and that announces turns for either thread.
TurnLines ==
    {Line("turn/started", NoId, FALSE, "", "", Params(t, "", "", u, "")) :
        t \in ExecThreads, u \in Turns}

SpecTurns ==
    Init /\ [][\/ nLines < MaxTurnLines
                  /\ \E msg \in Responses \cup TurnLines : handleLine(msg)
               \/ Len(ops) < MaxTurnOps /\ \E t \in ExecThreads : sendUserMessage(t)
               \/ \E o \in DOMAIN ops : AfterReady(o)
               \/ \E o \in DOMAIN ops : AfterRpc(o)]_vars

\* The text buffers under the item notifications of the peer.
SpecBuffers ==
    Init /\ [][nLines < MaxBufferLines /\ \E msg \in BufferLines : handleLine(msg)]_vars

\* The bridge with callers that shut it down, once or repeatedly, at any
\* moment of a call.
Shutdowns == {o \in DOMAIN ops : ops[o].kind = "shutdown"}

SpecShutdown ==
    Init /\ [][\/ Cardinality(Shutdowns) < MaxShutdownCalls /\ shutdown
               \/ nLines < MaxShutdownLines /\ \E msg \in Responses : handleLine(msg)
               \/ Len(ops) - Cardinality(Shutdowns) < MaxShutdownOps
                  /\ \E t \in Threads : sendUserMessage(t)
               \/ \E o \in DOMAIN ops : AfterReady(o)
               \/ \E o \in DOMAIN ops : AfterRpc(o)
               \/ procError
               \/ procExit]_vars

\* The RPC correlation alone: calls of sendUserMessage and cancel, the
\* responses of the peer, and the loss of the process.
RpcStep(maxLines, maxOps) ==
    \/ nLines < maxLines /\ \E msg \in Responses : handleLine(msg)
    \/ Len(ops) < maxOps /\ \E t \in Threads : sendUserMessage(t)
    \/ Len(ops) < maxOps /\ \E u \in Turns : cancel(u)
    \/ \E o \in DOMAIN ops : AfterReady(o)
    \/ \E o \in DOMAIN ops : AfterRpc(o)
    \/ procExit

SpecRpc == Init /\ [][RpcStep(MaxRpcLines, MaxRpcOps)]_vars

\* The approval workflow alone: the requests and approval notifications of
\* the peer, its responses (respondApproval reads no result), respondApproval,
\* and the loss of the peer.
ApprovalLines ==
    {l \in Responses : l.resultThread = "" /\ l.resultTurn = ""}
        \cup ServerRequests
        \cup {l \in Notifications : l.method = ApprovalMethod}

ApprovalStep(maxLines, maxOps) ==
    \/ nLines < maxLines /\ \E msg \in ApprovalLines : handleLine(msg)
    \/ Len(ops) < maxOps /\ \E a \in KnownApprovalIds, d \in Decisions : respondApproval(a, d)
          /\ UNCHANGED <<sessions, mgrOps>>
    \/ \E o \in DOMAIN ops : AfterRpc(o)
    \/ procExit
    \/ stdinClose

SpecApprovals == Init /\ [][ApprovalStep(MaxApprovalLines, MaxApprovalOps)]_vars

\* The same steps with room for two answers to one ticket.
SpecTickets == Init /\ [][ApprovalStep(MaxTicketLines, MaxTicketOps)]_vars

\* ------------------------------------------------------------- properties
IsInitialized(m) == m.kind = "notify" /\ m.method = "initialized"
IsCall(m, methods) == m.kind = "call" /\ m.method \in methods

\* the messages the step appended to the wire
Sent == {out'[i] : i \in (Len(out) + 1)..Len(out')}

\* outbound messages that answer a ticket with approval id a
Answers(a) ==
    {i \in DOMAIN out :
        \/ IsCall(out[i], {"approval/respond"}) /\ out[i].arg = a
        \/ out[i].kind = "result" /\ String(out[i].id) = a}

\* approval.request events that announced a ticket with approval id a
Tickets(a) ==
    {i \in DOMAIN events :
        events[i].type = "approval.request" /\ events[i].approvalId = a}

\* C1: an approval ticket is consumed at most once: over any run the bridge
\* sends, for every approval id, no more answers (RPC responses or
\* approval/respond calls) than tickets were announced with that id, so a
\* second respondApproval for the same ticket sends nothing.
C1_RespondApprovalIdempotent ==
    \A a \in KnownApprovalIds : Cardinality(Answers(a)) <= Cardinality(Tickets(a))

\* C2: handling a peer request whose method signals an approval and whose id
\* is a number n (0 included) appends one approval.request event with approval
\* id String(n) and a responder and registers the request-backed ticket
\* String(n) -> n; respondApproval on a request-backed ticket sends exactly
\* the response {id: n, result: {decision: map(d)}} and removes the ticket.
C2_RequestBackedApproval ==
    [][/\ \A msg \in ServerRequests :
            (Includes(msg.method, "requestApproval") /\ msg.id >= 0 /\ handleLine(msg))
            => /\ String(msg.id) \in DOMAIN pendingApprovals'
               /\ pendingApprovals'[String(msg.id)] = msg.id
               /\ Len(events') = Len(events) + 1
               /\ events'[Len(events')].type = "approval.request"
               /\ events'[Len(events')].approvalId = String(msg.id)
               /\ events'[Len(events')].responder
       /\ \A a \in DOMAIN pendingApprovals, d \in Decisions :
            (writable /\ respondApproval(a, d))
            => /\ out' = Append(out, ResultMsg(pendingApprovals[a], mapDecision(d)))
               /\ a \notin DOMAIN pendingApprovals'
      ]_vars

ThreadStartedCount(t) ==
    Cardinality({i \in DOMAIN events :
                    events[i].type = "thread.started" /\ events[i].threadId = t})

CreatedLocally(t) ==
    \E o \in DOMAIN ops :
        ops[o].kind = "createThread" /\ ops[o].pc = "resolved" /\ ops[o].value = t

\* C3: thread.started is emitted at most once per thread id, and exactly once
\* for every thread id a createThread call has returned, however the peer's
\* thread/started notifications for it are interleaved with the call.
C3_ThreadStartedOnce ==
    \A t \in Threads :
        /\ ThreadStartedCount(t) <= 1
        /\ CreatedLocally(t) => ThreadStartedCount(t) = 1

C3_Witness ==
    \E t \in Threads :
        CreatedLocally(t) /\ ThreadStartedCount(t) = 1 /\ nLines = MaxThreadLines

ErrorEvents == {i \in DOMAIN events : events[i].type = "error"}

\* C4: the step in which the process exits rejects the promise of every
\* call pending at that moment, leaves the pending-call table empty and
\* appends exactly one error event with recoverable = true; no other step
\* emits an error event.
C4_ExitRejectsPending ==
    /\ [](Cardinality(ErrorEvents) = IF procState = "exited" THEN 1 ELSE 0)
    /\ [][(procState # "exited" /\ procState' = "exited")
          => /\ \A id \in DOMAIN pendingRequests :
                    ops'[pendingRequests[id].op].rpcState = "rejected"
             /\ DOMAIN pendingRequests' = {}
             /\ events' = Append(events, ErrorEvent)
             /\ ErrorEvent.recoverable
         ]_vars

C4_Witness ==
    /\ procState = "exited"
    /\ Cardinality({o \in DOMAIN ops :
                       ops[o].pc = "awaitRpc" /\ ops[o].rpcState = "rejected"}) = 2
    /\ DOMAIN pendingRequests = {}
    /\ Cardinality(ErrorEvents) = 1

\* C5: the step of the process 'error' event rejects every pending call,
\* empties the table and emits the synthetic error event, as the exit step does.
C5_SpawnErrorEmitsEvent ==
    [][(procState = "running" /\ procState' = "errored")
       => /\ \A id \in DOMAIN pendingRequests :
                 ops'[pendingRequests[id].op].rpcState = "rejected"
          /\ DOMAIN pendingRequests' = {}
          /\ events' = Append(events, ErrorEvent)
      ]_vars

GatedMethods == {"thread/start", "turn/start", "turn/cancel"}

\* C6: the first message on the wire is initialize; a response without error
\* to the initialize id, arriving while readiness is pending, makes the bridge
\* send initialized and resolve readiness in that order; readiness is never
\* resolved without initialized on the wire; an operation is past its
\* `await this.ready` with a call issued only when readiness is resolved, and
\* every thread/start, turn/start, turn/cancel call follows initialized on the wire.
C6_HandshakeGatesCalls ==
    /\ [](/\ Len(out) >= 1
          /\ out[1] = CallMsg("initialize", FirstId, "", "")
          /\ readyState = "resolved" => \E j \in DOMAIN out : IsInitialized(out[j])
          /\ \A o \in DOMAIN ops :
                (ops[o].kind \in {"createThread", "sendUserMessage", "cancel"}
                   /\ ops[o].pc \in {"awaitRpc", "resolved"})
                => readyState = "resolved"
          /\ \A i \in DOMAIN out :
                IsCall(out[i], GatedMethods)
                => \E j \in 1..(i - 1) : IsInitialized(out[j]))
    /\ [][(readyState = "pending" /\ writable /\ nLines' = nLines + 1
             /\ \E msg \in Responses :
                   msg.id = initRequestId /\ ~msg.isError /\ handleLine(msg))
          => /\ out' = Append(out, NotifyMsg("initialized"))
             /\ readyState' = "resolved"
         ]_vars

C6_Witness ==
    /\ readyState = "resolved"
    /\ \E i, j \in DOMAIN out :
          i < j /\ IsInitialized(out[i]) /\ IsCall(out[j], GatedMethods)
    /\ \E o \in DOMAIN ops : ops[o].kind = "createThread" /\ ops[o].pc = "awaitRpc"

\* C7: whatever the peer sends, the wire carries exactly one initialize call
\* and at most one initialized notification.
C7_OneInitializeRoundTrip ==
    /\ Cardinality({i \in DOMAIN out : IsCall(out[i], {"initialize"})}) = 1
    /\ Cardinality({i \in DOMAIN out : IsInitialized(out[i])}) <= 1

\* C8: once readiness was rejected by an error response to initialize (the
\* process still running), the handshake stays failed: no later step sends
\* initialized, resolves readiness, or lets createThread / sendUserMessage
\* send a call.
C8_FailedIsTerminal ==
    [][(readyState = "rejected" /\ procState = "running")
       => /\ readyState' = "rejected"
          /\ \A m \in Sent : ~IsInitialized(m) /\ ~IsCall(m, {"thread/start", "turn/start"})
      ]_vars

\* C9: a step sends a thread/start, turn/start, turn/cancel or approval/respond
\* call only when readiness is resolved.
C9_NoCallBeforeReady ==
    [][\A m \in Sent :
          IsCall(m, GatedMethods \cup {"approval/respond"}) => readyState = "resolved"
      ]_vars

\* C10: the promise returned by cancel is never rejected.
C10_CancelNeverRejects ==
    \A o \in DOMAIN ops : ops[o].kind = "cancel" => ops[o].pc # "rejected"

Registered == {listeners[k] : k \in DOMAIN listeners}

\* C11: every event a step emits is handed to every registered listener, and
\* an exception thrown by a listener does not escape into the step that
\* emitted the event: the line handler does not throw and createThread does
\* not reject.
C11_ThrowingListenerIsolated ==
    [][Len(events') > Len(events)
       => /\ \A i \in (Len(events) + 1)..Len(events') : deliveries'[i] = Registered
          /\ lineThrew' = lineThrew
          /\ \A o \in DOMAIN ops :
                 (ops[o].kind = "createThread" /\ ops[o].pc = "awaitRpc"
                  /\ ops[o].rpcState = "resolved" /\ ops[o].resThread # "")
                 => ops'[o].pc # "rejected"
      ]_vars

\* the events the step appended
Emitted == {events'[i] : i \in (Len(events) + 1)..Len(events')}

IsExecOutput(e) ==
    \/ e.type = "item.delta" /\ e.kind = "commandOutput"
    \/ e.type = "item.completed" /\ e.kind = "commandExecution"

\* C12: the begin of a command execution records its thread id and turn id
\* under the call id; the record changes only at a begin for that call id;
\* and every item.delta / item.completed emitted for a call id that has a
\* record reports the recorded thread id and turn id.
C12_ExecEventsKeepBeginIdentity ==
    [][/\ \A e \in Emitted :
              e.type = "item.started"
              => commandExecutions'[e.itemId] = [threadId |-> e.threadId, turnId |-> e.turnId]
       /\ \A c \in DOMAIN commandExecutions \cap DOMAIN commandExecutions' :
              commandExecutions'[c] # commandExecutions[c]
              => \E e \in Emitted : e.type = "item.started" /\ e.itemId = c
       /\ \A e \in Emitted :
              (IsExecOutput(e) /\ e.itemId \in DOMAIN commandExecutions)
              => /\ e.threadId = commandExecutions[e.itemId].threadId
                 /\ e.turnId = commandExecutions[e.itemId].turnId
      ]_vars

\* a begin, an output delta and an end of one call have been turned into events
C12_Witness ==
    \E i, j, k \in DOMAIN events :
        /\ i < j /\ j < k
        /\ events[i].type = "item.started" /\ events[i].itemId = "c1"
        /\ events[j].type = "item.delta" /\ events[j].itemId = "c1"
        /\ events[k].type = "item.completed" /\ events[k].itemId = "c1"
        /\ events[j].threadId = events[i].threadId /\ events[j].turnId = events[i].turnId
        /\ events[k].threadId = events[i].threadId /\ events[k].turnId = events[i].turnId
        /\ events[j].delta = "out"

\* an output delta with a non-empty decoded chunk, or an end, that carries
\* neither a thread id nor a turn id
OmitsIdentity(msg) ==
    /\ msg.method \in {"codex/event/exec_command_output_delta",
                       "codex/event/exec_command_end"}
    /\ resolveThreadId(msg.params) = "" /\ resolveThreadId(msg.params.msg) = ""
    /\ resolveTurnId(msg.params) = "" /\ resolveTurnId(msg.params.msg) = ""
    /\ msg.params.id = ""
    /\ (msg.method = "codex/event/exec_command_end" \/ decodeChunk(msg.params.msg.chunk) # "")

\* C13: once a begin recorded a context for call id c, handling an output
\* delta (non-empty decoded chunk) or an end for c that carries no thread id
\* and no turn id emits one event, attributed to the recorded thread and turn.
C13_IdentityFreeExecEventEmitted ==
    [][\A msg \in ExecLines :
          (/\ nLines' = nLines + 1
           /\ OmitsIdentity(msg)
           /\ msg.params.msg.call_id \in DOMAIN commandExecutions
           /\ handleLine(msg))
          => /\ Len(events') = Len(events) + 1
             /\ \A e \in Emitted :
                    /\ IsExecOutput(e)
                    /\ e.threadId = commandExecutions[e.itemId].threadId
                    /\ e.turnId = commandExecutions[e.itemId].turnId
      ]_vars

\* the turn id of an event as handed to the resolution ("unknown" stands for
\* an absent turn id in approval requests)
TurnOf(e) == IF e.turnId = "unknown" THEN "" ELSE e.turnId

KnownThread(t) == t # "" /\ t \in DOMAIN threadContexts
KnownTurn(u) == u # "" /\ u \in DOMAIN turnToThread

\* C14: the session id of an emitted approval request follows the precedence:
\* the recorded session of its thread when the thread has a context; else,
\* when its turn is in the turn-to-thread index, the owning thread (its
\* recorded session, or its id when it has no context); else the raw thread
\* id; else the raw turn id; else "unknown".  "unknown" results only when
\* neither id is available.
C14_SessionPrecedence ==
    [][\A e \in Emitted :
          e.type = "approval.request"
          => LET t == e.threadId
                 u == TurnOf(e)
             IN  /\ KnownThread(t) => e.sessionId = threadContexts[t].sessionId
                 /\ (~KnownThread(t) /\ KnownTurn(u))
                    => e.sessionId = IF KnownThread(turnToThread[u])
                                     THEN threadContexts[turnToThread[u]].sessionId
                                     ELSE turnToThread[u]
                 /\ (~KnownThread(t) /\ ~KnownTurn(u) /\ t # "") => e.sessionId = t
                 /\ (~KnownTurn(u) /\ t = "" /\ u # "") => e.sessionId = u
                 /\ (t = "" /\ u = "") => e.sessionId = "unknown"
                 /\ e.sessionId = "unknown" => (t = "" /\ u = "")
      ]_vars

\* an approval request of an unregistered thread was attributed through the
\* turn index to the session of another, registered thread
C14_Witness ==
    \E i \in DOMAIN events :
        /\ events[i].type = "approval.request"
        /\ events[i].threadId = "t1" /\ "t1" \notin DOMAIN threadContexts
        /\ events[i].turnId = "u1" /\ "u1" \in DOMAIN turnToThread
        /\ turnToThread["u1"] = "t2" /\ "t2" \in DOMAIN threadContexts
        /\ events[i].sessionId = "s1"

\* C15: no event other than the error event of the process exit carries the
\* session id or the turn id "unknown".
C15_NoUnknownIdentity ==
    \A i \in DOMAIN events :
        events[i].type # "error"
        => events[i].sessionId # "unknown" /\ events[i].turnId # "unknown"

\* C16: handling a line never throws; and a line that is no JSON object, a
\* notification with an unknown method, and a notification without the ids
\* it needs leave every map, the wire and the event log as they were.
C16_LinesNeverThrow ==
    [][nLines' = nLines + 1
       => /\ lineThrew' = lineThrew
          /\ ((\E kind \in NonObjectLines : handleNonObjectLine(kind))
              \/ (\E msg \in DroppedLines : handleLine(msg)))
             => UNCHANGED <<out, events, pendingRequests, pendingApprovals,
                            pendingNotificationApprovals, threadContexts, turnToThread,
                            pendingThreadNotifications, seenThreads, commandExecutions,
                            agentMessageBuffers>>
      ]_vars

\* C17: a response whose id is not in the pending-call table (and is not the
\* awaited answer to initialize) changes nothing: no promise is settled, no
\* event is emitted, nothing is sent and the table keeps its entries.
C17_UnknownResponseIgnored ==
    [][\A msg \in Responses :
          (/\ nLines' = nLines + 1
           /\ msg.id \notin DOMAIN pendingRequests
           /\ ~(readyState = "pending" /\ msg.id = FirstId)
           /\ handleLine(msg))
          => UNCHANGED <<out, events, ops, pendingRequests, readyState>>
      ]_vars

\* C18: a response for pending call i settles the promise of call i and of no
\* other call (rejecting it when the response is an error) and removes entry
\* i and no other entry, so that every other call stays pending until its
\* own response is handled.
C18_ErrorRejectsOnlyItsCall ==
    [][(nLines' = nLines + 1 /\ pendingRequests # <<>>)
       => \A i \in DOMAIN pendingRequests, err \in BOOLEAN, r \in ResponseResults :
             handleLine(Line("", i, err, r[1], r[2], NoParams))
             => LET o == pendingRequests[i].op
                IN  /\ ops'[o].rpcState = IF err THEN "rejected" ELSE "resolved"
                    /\ \A p \in DOMAIN ops \ {o} : ops'[p] = ops[p]
                    /\ DOMAIN pendingRequests' = DOMAIN pendingRequests \ {i}
                    /\ \A j \in DOMAIN pendingRequests' :
                           pendingRequests'[j] = pendingRequests[j]
      ]_vars

\* an error response rejected one call while another call is still pending
C18_Witness ==
    /\ procState = "running"
    /\ \E o, p \in DOMAIN ops :
          /\ ops[o].rpcState = "rejected"
          /\ ops[p].rpcState = "pending"
          /\ \E j \in DOMAIN pendingRequests : pendingRequests[j].op = p
    /\ Cardinality(DOMAIN pendingRequests) = 1

UnhandledRequests == {msg \in ServerRequests : ~Includes(msg.method, "requestApproval")}

\* C19: while the peer's input stream is writable, handling a request whose
\* method does not signal an approval appends exactly one message to the
\* wire, an error response with the id of the request, and emits no event
\* and registers no ticket.
C19_UnhandledRequestAnswered ==
    [][(nLines' = nLines + 1 /\ writable)
       => \A msg \in UnhandledRequests :
             handleLine(msg)
             => /\ Len(out') = Len(out) + 1
                /\ SubSeq(out', 1, Len(out)) = out
                /\ out'[Len(out')].kind = "error"
                /\ out'[Len(out')].id = msg.id
                /\ UNCHANGED <<events, pendingApprovals, pendingNotificationApprovals>>
      ]_vars

\* two requests that are no approvals have been answered, each under its id
C19_Witness ==
    /\ nLines = 2
    /\ Len(out) = 3
    /\ out[2].kind = "error" /\ out[2].id = 7
    /\ out[3].kind = "error" /\ out[3].id = 0
    /\ events = <<>>

\* C20: respondApproval for a notification-backed ticket a with decision d
\* issues one approval/respond call with a fresh id, carrying a and the
\* mapped decision (nothing when the write fails); and it completes without
\* rejecting, at once when the write fails, and when the call settles
\* otherwise, whether the call was answered, answered with an error, or lost
\* with the process.
C20_NotificationTicketRespond ==
    /\ [](\A o \in DOMAIN ops :
             (ops[o].kind = "respondApproval" /\ ops[o].rpcState # "none")
             => ops[o].pc # "rejected")
    /\ [][Len(ops') = Len(ops) + 1
          => \A a \in pendingNotificationApprovals \ DOMAIN pendingApprovals,
                d \in Decisions :
             respondApproval(a, d)
             => /\ UNCHANGED events
                /\ IF writable
                   THEN /\ Len(out') = Len(out) + 1
                        /\ SubSeq(out', 1, Len(out)) = out
                        /\ out'[Len(out')].kind = "call"
                        /\ out'[Len(out')].method = "approval/respond"
                        /\ out'[Len(out')].arg = a
                        /\ out'[Len(out')].decision =
                               (IF SubSeq(d, 1, 7) = "approve" THEN "accept" ELSE "decline")
                        /\ \A i \in DOMAIN out :
                               out[i].kind = "call" => out[i].id # out'[Len(out')].id
                        /\ ops'[Len(ops')].pc = "awaitRpc"
                   ELSE /\ out' = out
                        /\ ops'[Len(ops')].pc = "resolved"
         ]_vars
    /\ [][\A o \in DOMAIN ops :
             (ops[o].kind = "respondApproval" /\ ops[o].pc = "awaitRpc"
              /\ ops'[o].pc # "awaitRpc")
             => ops'[o].pc = "resolved"
         ]_vars

\* the approval/respond call of a notification-backed ticket failed and
\* respondApproval completed all the same
C20_Witness ==
    \E o \in DOMAIN ops :
        /\ ops[o].kind = "respondApproval"
        /\ ops[o].rpcState = "rejected"
        /\ ops[o].pc = "resolved"

C22_CreateThreadOutcome ==
    [][\A o \in DOMAIN ops :
          (ops[o].kind = "createThread" /\ ops[o].pc = "awaitRpc"
           /\ ops'[o].pc # "awaitRpc")
          => IF ops[o].rpcState = "rejected" \/ ops[o].resThread = ""
             THEN /\ ops'[o].pc = "rejected"
                  /\ UNCHANGED <<threadContexts, events, seenThreads,
                                 pendingThreadNotifications>>
             ELSE LET t == ops[o].resThread
                      s == IF ops[o].session # "" THEN ops[o].session ELSE t
                  IN  /\ ops'[o].pc = "resolved"
                      /\ ops'[o].value = t
                      /\ DOMAIN threadContexts' = DOMAIN threadContexts \cup {t}
                      /\ threadContexts'[t].sessionId = s
                      /\ \A x \in DOMAIN threadContexts \ {t} :
                             threadContexts'[x] = threadContexts[x]
                      /\ pendingThreadNotifications' = pendingThreadNotifications \ {t}
                      /\ seenThreads' = seenThreads \cup {t}
                      /\ IF t \in seenThreads
                         THEN events' = events
                         ELSE /\ Len(events') = Len(events) + 1
                              /\ SubSeq(events', 1, Len(events)) = events
                              /\ events'[Len(events')].type = "thread.started"
                              /\ events'[Len(events')].threadId = t
                              /\ events'[Len(events')].sessionId = s
      ]_vars

\* C23: when sendUserMessage resumes after its turn/start call, it rejects if
\* the call failed or its result carries no turn id, and then leaves the
\* turn-to-thread index as it was; with a turn id u it records u -> threadId
\* in the index, leaves the other entries alone, and returns u.
C23_SendMessageOutcome ==
    [][\A o \in DOMAIN ops :
          (ops[o].kind = "sendUserMessage" /\ ops[o].pc = "awaitRpc"
           /\ ops'[o].pc # "awaitRpc")
          => IF ops[o].rpcState = "rejected" \/ ops[o].resTurn = ""
             THEN /\ ops'[o].pc = "rejected"
                  /\ turnToThread' = turnToThread
             ELSE LET u == ops[o].resTurn
                  IN  /\ ops'[o].pc = "resolved"
                      /\ ops'[o].value = u
                      /\ DOMAIN turnToThread' = DOMAIN turnToThread \cup {u}
                      /\ turnToThread'[u] = ops[o].arg
                      /\ \A x \in DOMAIN turnToThread \ {u} :
                             turnToThread'[x] = turnToThread[x]
      ]_vars

\* one sendUserMessage returned its turn id with the index entry recorded,
\* another was answered without a turn id and rejected
C23_Witness ==
    \E o, q \in DOMAIN ops :
        /\ ops[o].kind = "sendUserMessage" /\ ops[o].pc = "resolved"
        /\ ops[o].value \in DOMAIN turnToThread
        /\ turnToThread[ops[o].value] = ops[o].arg
        /\ ops[q].kind = "sendUserMessage" /\ ops[q].pc = "rejected"
        /\ ops[q].rpcState = "resolved" /\ ops[q].resTurn = ""

\* C24: shutdown never rejects; a shutdown called after an earlier shutdown
\* changes nothing of the bridge (only the record of the invocation is
\* added); and however often shutdown is called, the loss of the process is
\* reported by at most one error event.
C24_ShutdownIdempotent ==
    /\ [](\A o \in DOMAIN ops : ops[o].kind = "shutdown" => ops[o].pc = "resolved")
    /\ [](Cardinality(ErrorEvents) <= 1)
    /\ [][(Len(ops') = Len(ops) + 1 /\ ops'[Len(ops')].kind = "shutdown"
           /\ \E o \in DOMAIN ops : ops[o].kind = "shutdown")
          => /\ SubSeq(ops', 1, Len(ops)) = ops
             /\ UNCHANGED <<nextId, initRequestId, readyState, pendingRequests,
                            pendingApprovals, pendingNotificationApprovals, threadContexts,
                            turnToThread, pendingThreadNotifications, seenThreads, out,
                            events, procState, writable, lineThrew, nLines,
                            commandExecutions, listeners, deliveries, agentMessageBuffers,
                            killed, store, forwarded, sessions, mgrOps>>
      ]_vars

\* shutdown was called while a call was pending, the process exited, and
\* shutdown was called again: one error event, both calls completed
C24_Witness ==
    /\ Len(ops) = 3
    /\ ops[1].rpcState = "rejected"
    /\ ops[2].kind = "shutdown" /\ ops[2].pc = "resolved"
    /\ ops[3].kind = "shutdown" /\ ops[3].pc = "resolved"
    /\ killed
    /\ procState = "exited"
    /\ Cardinality(ErrorEvents) = 1

\* the event type a notification of the given method produces
EventTypeOf(method) ==
    CASE method = "thread/started" -> "thread.started"
      [] method = "turn/started" -> "turn.started"
      [] method = "turn/completed" -> "turn.completed"
      [] method = "item/started" -> "item.started"
      [] method = "item/completed" -> "item.completed"
      [] method \in DOMAIN DeltaKind -> "item.delta"
      [] OTHER -> ""

\* event e says what line msg says, and nothing kept from an earlier line
CausedBy(e, msg) ==
    /\ e.type = EventTypeOf(msg.method)
    /\ e.threadId = (IF msg.method = "thread/started"
                     THEN msg.params.thread ELSE msg.params.threadId)
    /\ e.turnId = (IF msg.method \in {"turn/started", "turn/completed"}
                   THEN msg.params.turn ELSE msg.params.turnId)
    /\ e.delta = msg.params.delta
    /\ e.itemId = (IF msg.method \in DOMAIN DeltaKind
                   THEN msg.params.itemId ELSE msg.params.itemObjectId)

\* C25: events are emitted, and handed to the listeners, in the order of the
\* lines that cause them: the event log only grows at its end; the step
\* that handles a line emits at most one event, and that event is the one
\* the line at hand describes; a step that handles no line emits nothing but
\* the error event of the peer's exit or the thread.started that createThread
\* emits, deferred or not.
C25_EventsInLineOrder ==
    [][/\ Len(events') >= Len(events)
       /\ SubSeq(events', 1, Len(events)) = events
       /\ Len(deliveries') = Len(events')
       /\ SubSeq(deliveries', 1, Len(deliveries)) = deliveries
       /\ (nLines' = nLines)
          => \A i \in (Len(events) + 1)..Len(events') :
                 events'[i].type \in {"error", "thread.started"}
       /\ (nLines' = nLines + 1 /\ events' # events)
          => /\ Len(events') = Len(events) + 1
             /\ \A msg \in OrderLines :
                    handleLine(msg) => CausedBy(events'[Len(events')], msg)
      ]_vars

\* two deltas were emitted in the order of their lines, and the deferred
\* thread.started of the thread came after both
C25_Witness ==
    /\ Len(events) = 3
    /\ events[1].type = "item.delta" /\ events[1].delta = "a"
    /\ events[2].type = "item.delta" /\ events[2].delta = "b"
    /\ events[3].type = "thread.started"
    /\ nLines = 5

\* the text each accepted chunk encodes
Utf8OfBase64 ==
    [k \in Base64Chunks |->
        CASE k = "b3V0" -> "out"
          [] k = "b3U=" -> "ou"
          [] k = "bw==" -> "o"
          [] k = "bx==" -> "o"
          [] k = "b3V0cHV0" -> "output"
          [] k = "ZG9uZQ==" -> "done"
          [] OTHER -> "123"]

\* C26: an output chunk of base64 shape whose length is a multiple of four
\* is emitted as one item.delta carrying the text it encodes; any other
\* chunk that is not empty is emitted as one item.delta carrying the chunk
\* as it came; an empty chunk emits nothing.
C26_ChunkDecoding ==
    [][nLines' = nLines + 1
       => \A msg \in ChunkLines :
             handleLine(msg)
             => LET k == msg.params.msg.chunk
                    expected == IF k \in Base64Chunks THEN Utf8OfBase64[k] ELSE k
                IN  IF k = ""
                    THEN events' = events
                    ELSE /\ Len(events') = Len(events) + 1
                         /\ SubSeq(events', 1, Len(events)) = events
                         /\ events'[Len(events')].type = "item.delta"
                         /\ events'[Len(events')].kind = "commandOutput"
                         /\ events'[Len(events')].delta = expected
      ]_vars

\* a chunk was decoded and a chunk was passed through
C26_Witness ==
    /\ Len(events) = 2
    /\ events[1].type = "item.delta" /\ events[1].delta = "output"
    /\ events[2].type = "item.delta" /\ events[2].delta = "b3V0b"

\* the decision names that begin with "approve"
Approving == {"approve_once", "approve_always", "approve"}

\* C27: respondApproval for a pending ticket, request-backed or
\* notification-backed, writes one message whose decision is accept when the
\* caller's decision name begins with "approve" and decline for every other
\* name.
C27_DecisionMapping ==
    [][(Len(ops') = Len(ops) + 1 /\ writable)
       => \A a \in DOMAIN pendingApprovals \cup pendingNotificationApprovals,
             d \in DecisionNames :
          respondApproval(a, d)
          => /\ Len(out') = Len(out) + 1
             /\ out'[Len(out')].kind =
                    (IF a \in DOMAIN pendingApprovals THEN "result" ELSE "call")
             /\ out'[Len(out')].decision =
                    (IF d \in Approving THEN "accept" ELSE "decline")
      ]_vars

\* a request-backed ticket was accepted and a notification-backed one declined
C27_Witness ==
    \E i, j \in DOMAIN out :
        /\ out[i].kind = "result" /\ out[i].decision = "accept"
        /\ out[j].kind = "call" /\ out[j].method = "approval/respond"
        /\ out[j].decision = "decline"
        /\ \E o \in DOMAIN ops : ops[o].decision = "disapprove"

\* C28: calling the unregister function of a handler removes that handler
\* and no other from the registered listeners; an event is handed to no
\* handler that is not registered (never registered, or unregistered since);
\* and every event is handed to every handler that is registered.
C28_UnregisterStopsDelivery ==
    [][/\ \A h \in Handlers :
              (h \in Registered /\ unregister(h))
              => {listeners'[k] : k \in DOMAIN listeners'} = Registered \ {h}
       /\ \A i \in (Len(events) + 1)..Len(events') :
              /\ deliveries'[i] \subseteq Registered
              /\ Registered \subseteq deliveries'[i]
      ]_vars

\* the positions of the calls on the wire, initialize included
Calls == {i \in DOMAIN out : out[i].kind = "call"}

\* C29: the ids of the calls on the wire are strictly increasing in the
\* order the calls were written; every key of the pending-call table is
\* smaller than the next id to allocate and differs from the id of
\* initialize; and the number a locally generated approval identifier took
\* from the counter is the id of no call.
C29_CallIdsIncrease ==
    /\ \A i, j \in Calls : i < j => out[i].id < out[j].id
    /\ \A i \in Calls : out[i].id < nextId
    /\ \A id \in DOMAIN pendingRequests :
           id < nextId /\ id # FirstId /\ id # initRequestId
    /\ \A e \in DOMAIN events, i \in Calls :
           events[e].approvalId # "approval_T_" \o String(out[i].id)

\* an approval identifier was generated from id 2 and two calls followed,
\* with ids 3 and 4, both pending
C29_Witness ==
    /\ \E e \in DOMAIN events : events[e].approvalId = "approval_T_2"
    /\ {out[i].id : i \in Calls} = {1, 3, 4}
    /\ DOMAIN pendingRequests = {3, 4}
    /\ nextId = 5

\* the responses on the wire that carry a decision for request id r
Results(r) == {i \in DOMAIN out : out[i].kind = "result" /\ out[i].id = r}

\* the approval requests emitted with a responder for request id r
Requested(r) ==
    {e \in DOMAIN events :
        /\ events[e].type = "approval.request"
        /\ events[e].responder
        /\ events[e].approvalId = String(r)}

\* C30: a request-backed approval is answered at most once, however its
\* responder is invoked (by a listener through the event, through
\* respondApproval, repeatedly): the wire never carries more responses for a
\* request id than approval requests were emitted for it; and the step that
\* writes the response removes the pending ticket.
C30_ResponderSendsOnce ==
    /\ [](\A r \in RequestIds : Cardinality(Results(r)) <= Cardinality(Requested(r)))
    /\ [][Len(out') = Len(out) + 1
          => \A r \in RequestIds :
                 (out'[Len(out')].kind = "result" /\ out'[Len(out')].id = r)
                 => String(r) \notin DOMAIN pendingApprovals'
         ]_vars

\* C31: a Thread Context, once registered for a thread id, stays registered
\* with the same session id and working directory in every later step.
C31_ContextNeverChanges ==
    [][\A t \in DOMAIN threadContexts :
          /\ t \in DOMAIN threadContexts'
          /\ threadContexts'[t] = threadContexts[t]
      ]_vars

\* C32: the turn-to-thread index only grows: a turn id that is mapped to a
\* thread id stays mapped, to the same thread id, in every later step.
C32_TurnIndexAppendOnly ==
    [][\A u \in DOMAIN turnToThread :
          /\ u \in DOMAIN turnToThread'
          /\ turnToThread'[u] = turnToThread[u]
      ]_vars

\* the text of the message deltas emitted for item i among the first n
\* events, since the last completion of the message item i ("" when there is
\* none)
RECURSIVE TextSince(_, _)
TextSince(i, n) ==
    IF n = 0 THEN ""
    ELSE LET e == events[n]
         IN  IF e.itemId = i /\ e.type = "item.completed" /\ e.kind = "agentMessage"
             THEN ""
             ELSE IF e.itemId = i /\ e.type = "item.delta" /\ e.kind = "agentMessage"
             THEN TextSince(i, n - 1) \o e.delta
             ELSE TextSince(i, n - 1)

\* C33: for every item id, the buffer holds the concatenation, in arrival
\* order, of the message deltas accepted for the item since the buffer was
\* created, and the item has no buffer when no delta came since the peer
\* reported the message item complete (or none came at all); the step that
\* takes the completion leaves no buffer for the item.
C33_BufferIsConcatenation ==
    /\ [](\A i \in BufferItems :
             IF TextSince(i, Len(events)) = ""
             THEN i \notin DOMAIN agentMessageBuffers
             ELSE /\ i \in DOMAIN agentMessageBuffers
                  /\ agentMessageBuffers[i] = TextSince(i, Len(events)))
    /\ [][\A e \in Emitted :
              (e.type = "item.completed" /\ e.kind = "agentMessage")
              => e.itemId \notin DOMAIN agentMessageBuffers'
         ]_vars

\* two deltas of one message are buffered in their order, and the buffer of
\* another message is gone with its completion
C33_Witness ==
    /\ agentMessageBuffers = [i \in {"i1"} |-> "ba"]
    /\ \E m, n \in DOMAIN events :
           /\ m < n
           /\ events[m].type = "item.delta" /\ events[m].itemId = "i2"
           /\ events[n].type = "item.completed" /\ events[n].itemId = "i2"
           /\ events[n].kind = "agentMessage"


\* C34: the step that takes the peer's exec_command_end for call id c leaves
\* no record for c in the command execution table, and an output delta for a
\* call id without a record is reported under the thread id and turn id the
\* delta notification itself carries.
C34_EndForgetsCall ==
    [][\A msg \in ExecLines :
          (/\ nLines' = nLines + 1
           /\ msg.method \in {"codex/event/exec_command_end",
                              "codex/event/exec_command_output_delta"}
           /\ handleLine(msg))
          => /\ msg.method = "codex/event/exec_command_end"
                => msg.params.msg.call_id \notin DOMAIN commandExecutions'
             /\ (/\ msg.method = "codex/event/exec_command_output_delta"
                 /\ msg.params.msg.call_id \notin DOMAIN commandExecutions)
                => \A e \in Emitted :
                       /\ e.threadId = msg.params.conversationId
                       /\ e.turnId = msg.params.id
      ]_vars


\* the invocations whose record a step changed or added
Stepped == {o \in DOMAIN ops' : o \notin DOMAIN ops \/ ops'[o] # ops[o]}

\* C35: a step of cancel (its invocation, its continuation after the
\* handshake, its return) leaves every other invocation and every pending
\* call of another invocation as they were, and removes no pending call at
\* all; and a response for a pending call settles the promise of the call it
\* names, resolved for a result and rejected for an error, whatever cancel
\* did before.
C35_CancelKeepsCalls ==
    [][/\ (/\ nLines' = nLines
           /\ procState' = procState
           /\ \E o \in Stepped : ops'[o].kind = "cancel")
          => /\ \A p \in DOMAIN ops : ops[p].kind # "cancel" => ops'[p] = ops[p]
             /\ \A id \in DOMAIN pendingRequests :
                    /\ id \in DOMAIN pendingRequests'
                    /\ pendingRequests'[id] = pendingRequests[id]
             /\ \A id \in DOMAIN pendingRequests' \ DOMAIN pendingRequests :
                    /\ pendingRequests'[id].method = "turn/cancel"
                    /\ pendingRequests'[id].op \in Stepped
       /\ \A msg \in Responses :
              (/\ nLines' = nLines + 1
               /\ msg.id \in DOMAIN pendingRequests
               /\ msg.id # initRequestId
               /\ handleLine(msg))
              => /\ msg.id \notin DOMAIN pendingRequests'
                 /\ ops'[pendingRequests[msg.id].op].rpcState =
                        IF msg.isError THEN "rejected" ELSE "resolved"
                 /\ \A id \in DOMAIN pendingRequests \ {msg.id} :
                        /\ id \in DOMAIN pendingRequests'
                        /\ pendingRequests'[id] = pendingRequests[id]
      ]_vars

\* cancel has returned while the turn/start call issued before it is still
\* pending
C35_Witness ==
    \E o, q \in DOMAIN ops, id \in DOMAIN pendingRequests :
        /\ ops[q].kind = "cancel" /\ ops[q].pc = "resolved" /\ ops[q].rpcState = "resolved"
        /\ ops[o].kind = "sendUserMessage" /\ ops[o].pc = "awaitRpc"
        /\ ops[o].rpcState = "pending"
        /\ pendingRequests[id] = [method |-> "turn/start", op |-> o]
        /\ \E k, m \in DOMAIN out :
               /\ k < m
               /\ out[k] = CallMsg("turn/start", id, ops[o].arg, "")
               /\ out[m] = CallMsg("turn/cancel", id + 1, ops[q].arg, "")


\* The calls under the scheduling of the runtime and a peer that goes away:
\* a continuation that can run does run (the microtask queue is drained), and
\* the peer process exits in the end, whatever it answered before.
MaxLiveLines == 2
MaxLiveOps == 2

LiveStep ==
    \/ nLines < MaxLiveLines /\ \E msg \in Responses : handleLine(msg)
    \/ Len(ops) < MaxLiveOps /\ \E t \in Threads : sendUserMessage(t)
    \/ Len(ops) < MaxLiveOps /\ \E u \in Turns : cancel(u)
    \/ \E o \in DOMAIN ops : AfterReady(o)
    \/ \E o \in DOMAIN ops : AfterRpc(o)
    \/ procExit

SpecLive ==
    /\ Init
    /\ [][LiveStep]_vars
    /\ \A o \in 1..MaxLiveOps : WF_vars(AfterReady(o)) /\ WF_vars(AfterRpc(o))
    /\ WF_vars(procExit)

Settled(o) == o \in DOMAIN ops /\ ops[o].pc \in {"resolved", "rejected"}
RpcPending(o) == o \in DOMAIN ops /\ ops[o].rpcState = "pending"
RpcSettled(o) == o \in DOMAIN ops /\ ops[o].rpcState \in {"resolved", "rejected"}

\* C36: every invocation that waits for the handshake or for the answer to
\* its call is settled in the end, and so is the promise of its call; once the
\* process has exited the table of pending calls is empty and no call is
\* pending; an invocation that continues after the process exited or after
\* the handshake failed gets no pending call and is settled at once.
C36_CallsSettle ==
    /\ \A o \in 1..MaxLiveOps :
           /\ [](o \in DOMAIN ops => <>Settled(o))
           /\ [](RpcPending(o) => <>RpcSettled(o))
    /\ [](procState = "exited"
             => /\ pendingRequests = <<>>
                /\ \A o \in DOMAIN ops : ops[o].rpcState # "pending")
    /\ [][\A o \in DOMAIN ops :
             (/\ ops[o].pc = "awaitReady"
              /\ ops'[o] # ops[o]
              /\ procState = "exited" \/ readyState = "rejected")
             => /\ Settled(o)'
                /\ ops'[o].rpcState = "none"
                /\ ops[o].kind # "cancel" => ops'[o].pc = "rejected"
                /\ pendingRequests' = pendingRequests
         ]_vars

\* the process exited after the handshake: the call that was pending is
\* rejected, and a sendUserMessage invoked after the exit is rejected without
\* a call of its own
C36_Witness ==
    /\ procState = "exited" /\ readyState = "resolved"
    /\ \E o, q \in DOMAIN ops :
           /\ o < q
           /\ ops[o].rpcState = "rejected" /\ ops[o].pc = "rejected"
           /\ ops[q].kind = "sendUserMessage" /\ ops[q].pc = "rejected"
           /\ ops[q].rpcState = "none"
    /\ pendingRequests = <<>>


\* C37: a respondApproval for a request-backed ticket that finds the peer's
\* input stream not writable rejects, sends nothing and leaves the ticket
\* table as it was; one that finds it writable sends the one result and
\* removes the ticket.  A ticket is never removed without its result sent.
C37_FailedSendKeepsTicket ==
    [][(/\ Len(ops') = Len(ops) + 1
        /\ ops'[Len(ops')].kind = "respondApproval"
        /\ ops'[Len(ops')].arg \in DOMAIN pendingApprovals)
       => LET new == ops'[Len(ops')]
          IN  IF writable
              THEN /\ new.pc = "resolved"
                   /\ out' = Append(out, ResultMsg(pendingApprovals[new.arg],
                                                   IF new.decision \in Approving
                                                   THEN "accept" ELSE "decline"))
                   /\ DOMAIN pendingApprovals' = DOMAIN pendingApprovals \ {new.arg}
              ELSE /\ new.pc = "rejected"
                   /\ out' = out
                   /\ pendingApprovals' = pendingApprovals
      ]_vars

\* a respondApproval was rejected and its request-backed ticket is still
\* there, the stream being closed
C37_Witness ==
    /\ ~writable
    /\ \E o \in DOMAIN ops :
           /\ ops[o].kind = "respondApproval" /\ ops[o].pc = "rejected"
           /\ ops[o].arg \in DOMAIN pendingApprovals
           /\ \A k \in DOMAIN out : out[k].kind # "result"


\* the createThread calls made for session s
ThreadCalls(s) == {o \in DOMAIN ops : ops[o].kind = "createThread" /\ ops[o].session = s}

\* C38: for every session, createThread is called at most once, and all the
\* sendUserMessage calls of the session's sendMessage invocations name one
\* thread id.
C38_OneThreadPerSession ==
    \A s \in Sessions :
        /\ Cardinality(ThreadCalls(s)) <= 1
        /\ \A m, n \in DOMAIN mgrOps :
               (/\ mgrOps[m].session = s /\ mgrOps[n].session = s
                /\ mgrOps[m].threadId # "" /\ mgrOps[n].threadId # "")
               => mgrOps[m].threadId = mgrOps[n].threadId


\* C39: a step of AgentManager.respondApproval leaves the stored status and
\* resolution time of every approval that is already approved or denied.
C39_ResolvedIsTerminal ==
    [][(\E m \in DOMAIN mgrOps :
            /\ mgrOps[m].kind = "respondApproval"
            /\ mgrOps'[m] # mgrOps[m])
       => \A a \in DOMAIN store.approvals :
              store.approvals[a].status # "pending"
              => /\ a \in DOMAIN store'.approvals
                 /\ store'.approvals[a].status = store.approvals[a].status
                 /\ store'.approvals[a].resolvedAt = store.approvals[a].resolvedAt
      ]_vars


\* the events of session s, in the order the transport emitted them
EventsOf(s) == SelectSeq(events, LAMBDA e : e.sessionId = s)

\* the events recorded in the timeline of session s, in the order of the items
RecordedOf(s) ==
    LET items == SelectSeq(listTimelineItems(store, s), LAMBDA it : it.payload # UserMessage)
    IN  [k \in DOMAIN items |-> items[k].payload]

\* C40: the timeline of every session numbers its items 1, 2, ..., n and
\* holds the session's transport events in the order they were emitted; the
\* step that emits an event hands it to the manager's listeners, and the step
\* that emits an approval.request stores that request as a pending approval
\* under its id.
C40_EventsRecorded ==
    /\ [](\A s \in DOMAIN store.timeline \cup {events[i].sessionId : i \in DOMAIN events} :
             /\ \A k \in DOMAIN listTimelineItems(store, s) :
                    listTimelineItems(store, s)[k].sequence = k
             /\ RecordedOf(s) = EventsOf(s))
    /\ [][/\ forwarded' = forwarded \o SubSeq(events', Len(events) + 1, Len(events'))
          /\ \A e \in Emitted :
                 e.type = "approval.request"
                 => /\ e.approvalId \in DOMAIN store'.approvals
                    /\ store'.approvals[e.approvalId] =
                           [status |-> "pending", resolvedAt |-> 0,
                            sessionId |-> e.sessionId, turnId |-> e.turnId]
         ]_vars
====
